---- MODULE Spec2Model ----
(***************************************************************************)
(* A model of the weather CRUD backend.                                    *)
(*                                                                         *)
(* The repository holds two implementations of the same service: the       *)
(* monolith src/app.py ("app") and the service-based                       *)
(* src/app_refactored.py with src/services/*.py ("refactored").  A         *)
(* deployment runs one of them; the variable impl says which.              *)
(*                                                                         *)
(* Python values are modelled as follows.                                  *)
(*   - a str that the code inspects character by character (a weather      *)
(*     description, a label) is a sequence of one-character strings;       *)
(*   - a dict is a record; an absent key is a field that is not in the     *)
(*     record's DOMAIN;                                                    *)
(*   - None is the record PyNone;                                          *)
(*   - an error message built with an f-string is a record of its parts    *)
(*     (text, status or cause); a bare str(e) is [text |-> msg].           *)
(***************************************************************************)
EXTENDS Integers, Sequences, FiniteSets, TLC

VARIABLES
    impl,      \* "app" (src/app.py) or "refactored" (src/app_refactored.py)
    store,     \* the weather_records table: id -> row
    next_id,   \* the table's AUTO_INCREMENT counter
    now,       \* the clock read by datetime.utcnow(), one tick per request
    resp,      \* the response of the last CRUD request
    fcall,     \* the last call of a function that talks to an upstream API
    tcall,     \* the last call of the today's-weather functions
    session    \* the update requests in progress: request -> its db.session

vars == <<impl, store, next_id, now, resp, fcall, tcall, session>>

PyNone == [none |-> TRUE]

\* No request is in progress.
NoSessions == << >>

(***************************************************************************)
(* Strings as character sequences.                                         *)
(***************************************************************************)
UpperAlpha ==
    <<"A","B","C","D","E","F","G","H","I","J","K","L","M",
      "N","O","P","Q","R","S","T","U","V","W","X","Y","Z">>

LowerAlpha ==
    <<"a","b","c","d","e","f","g","h","i","j","k","l","m",
      "n","o","p","q","r","s","t","u","v","w","x","y","z">>

IsUpper(c) == \E i \in 1..Len(UpperAlpha) : UpperAlpha[i] = c

IsLower(c) == \E i \in 1..Len(LowerAlpha) : LowerAlpha[i] = c

lower_char(c) ==
    IF IsUpper(c)
    THEN LowerAlpha[CHOOSE i \in 1..Len(UpperAlpha) : UpperAlpha[i] = c]
    ELSE c

upper_char(c) ==
    IF IsLower(c)
    THEN UpperAlpha[CHOOSE i \in 1..Len(LowerAlpha) : LowerAlpha[i] = c]
    ELSE c

\* str.lower()
lower(s) == [i \in 1..Len(s) |-> lower_char(s[i])]

\* str.title(): a cased character that follows an uncased one (or starts the
\* string) is upper-cased, every other cased character is lower-cased.
title(s) ==
    [i \in 1..Len(s) |->
        IF i = 1 \/ ~(IsUpper(s[i-1]) \/ IsLower(s[i-1]))
        THEN upper_char(s[i])
        ELSE lower_char(s[i])]

\* key in s
Contains(key, s) ==
    \E i \in 0..(Len(s) - Len(key)) :
        \A j \in 1..Len(key) : s[i + j] = key[j]

(***************************************************************************)
(* Weather descriptions and labels.                                        *)
(***************************************************************************)
S_rain == <<"r","a","i","n">>
S_Rain == <<"R","a","i","n">>
S_clear_sky == <<"c","l","e","a","r"," ","s","k","y">>
S_smoke == <<"s","m","o","k","e">>
S_thunderstorm_with_rain ==
    <<"t","h","u","n","d","e","r","s","t","o","r","m"," ","w","i","t","h"," ","r","a","i","n">>
S_volcanic_ash == <<"v","o","l","c","a","n","i","c"," ","a","s","h">>

S_clouds == <<"c","l","o","u","d","s">>
S_clear == <<"c","l","e","a","r">>
S_snow == <<"s","n","o","w">>
S_thunderstorm == <<"t","h","u","n","d","e","r","s","t","o","r","m">>
S_drizzle == <<"d","r","i","z","z","l","e">>
S_mist == <<"m","i","s","t">>
S_fog == <<"f","o","g">>
S_haze == <<"h","a","z","e">>

L_Mixed_Conditions ==
    <<"M","i","x","e","d"," ","C","o","n","d","i","t","i","o","n","s">>
L_Partly_Cloudy == <<"P","a","r","t","l","y"," ","C","l","o","u","d","y">>
L_Clear_Sky == <<"C","l","e","a","r"," ","S","k","y">>
L_Light_Rain == <<"L","i","g","h","t"," ","R","a","i","n">>
L_Light_Snow == <<"L","i","g","h","t"," ","S","n","o","w">>
L_Thunderstorm == <<"T","h","u","n","d","e","r","s","t","o","r","m">>
L_Light_Drizzle == <<"L","i","g","h","t"," ","D","r","i","z","z","l","e">>
L_Misty == <<"M","i","s","t","y">>
L_Foggy == <<"F","o","g","g","y">>
L_Hazy == <<"H","a","z","y">>

\* The dict literal weather_mapping, in its insertion order.
weather_mapping ==
    << <<S_clouds, L_Partly_Cloudy>>,
       <<S_clear, L_Clear_Sky>>,
       <<S_rain, L_Light_Rain>>,
       <<S_snow, L_Light_Snow>>,
       <<S_thunderstorm, L_Thunderstorm>>,
       <<S_drizzle, L_Light_Drizzle>>,
       <<S_mist, L_Misty>>,
       <<S_fog, L_Foggy>>,
       <<S_haze, L_Hazy>> >>

(***************************************************************************)
(* WeatherService.get_most_descriptive_weather                             *)
(***************************************************************************)
\* The dict weather_counts after the counting loop, as the sequence of its
\* items in insertion order.
RECURSIVE weather_counts(_)
weather_counts(hourly_data) ==
    IF hourly_data = << >>
    THEN << >>
    ELSE LET n == Len(hourly_data)
             prev == weather_counts(SubSeq(hourly_data, 1, n - 1))
             desc == lower(hourly_data[n].description)
         IN  IF \E k \in 1..Len(prev) : prev[k].key = desc
             THEN [k \in 1..Len(prev) |->
                      IF prev[k].key = desc
                      THEN [key |-> desc, n |-> prev[k].n + 1]
                      ELSE prev[k]]
             ELSE Append(prev, [key |-> desc, n |-> 1])

\* max(items, key=count) when ties go to the last maximal item.
max_last(items) ==
    items[CHOOSE k \in 1..Len(items) :
            /\ \A j \in 1..Len(items) : items[j].n <= items[k].n
            /\ \A j \in (k+1)..Len(items) : items[j].n < items[k].n]

\* max(items, key=count): Python's max keeps the first maximal item.
max_by_count(items) ==
    items[CHOOSE k \in 1..Len(items) :
            /\ \A j \in 1..Len(items) : items[j].n <= items[k].n
            /\ \A j \in 1..(k-1) : items[j].n < items[k].n]

\* most_frequent = max(weather_counts.items(), key=lambda x: x[1])
most_frequent(hourly_data) == max_by_count(weather_counts(hourly_data))

\* The loop over weather_mapping.items() when the last matching key wins.
relabel_last_match(weather_desc) ==
    IF \E k \in 1..Len(weather_mapping) : Contains(weather_mapping[k][1], weather_desc)
    THEN weather_mapping[
            CHOOSE k \in 1..Len(weather_mapping) :
                /\ Contains(weather_mapping[k][1], weather_desc)
                /\ \A j \in (k+1)..Len(weather_mapping) :
                      ~Contains(weather_mapping[j][1], weather_desc)][2]
    ELSE title(weather_desc)

\* The loop over weather_mapping.items(): the value of the first key that is
\* a substring of weather_desc, else weather_desc.title().
relabel(weather_desc) ==
    IF \E k \in 1..Len(weather_mapping) : Contains(weather_mapping[k][1], weather_desc)
    THEN weather_mapping[
            CHOOSE k \in 1..Len(weather_mapping) :
                /\ Contains(weather_mapping[k][1], weather_desc)
                /\ \A j \in 1..(k-1) : ~Contains(weather_mapping[j][1], weather_desc)][2]
    ELSE title(weather_desc)

S_Unknown == <<"U","n","k","n","o","w","n">>

\* The label with the fallback of the inline count of get_todays_weather_3hour
\* in place of the guard for an empty list.
get_most_descriptive_weather_unknown(hourly_data) ==
    IF hourly_data = << >>
    THEN S_Unknown
    ELSE relabel(most_frequent(hourly_data).key)

get_most_descriptive_weather(hourly_data) ==
    IF hourly_data = << >>
    THEN L_Mixed_Conditions
    ELSE relabel(most_frequent(hourly_data).key)

(***************************************************************************)
(* The upstream HTTP APIs.  The outcome of one requests.get call (with the *)
(* .json() that follows it) is either a response [status, body] or an      *)
(* exception [raise |-> str(e)].                                           *)
(***************************************************************************)
ForecastThreshold == 40

HTTP_OK == 200

HTTP_ERROR == 500

Raises(outcome) == "raise" \in DOMAIN outcome

\* dict.get(key, default)
Get(d, key, default) == IF key \in DOMAIN d THEN d[key] ELSE default

EmptyDict == << >>

\* str(e) of the exceptions an upstream call raises: the empty message (for
\* example MemoryError()) and a non-empty one.
ExcMessages == {"", "connection timed out"}

MaxSlices == 2

GoodSlice(desc) ==
    [dt |-> 3,
     main |-> [temp |-> 215, feels_like |-> 204, humidity |-> 50],
     weather |-> <<[description |-> desc, icon |-> "01d", main |-> "Sky", id |-> 800]>>,
     dt_txt |-> "day 0 03:00"]

\* A slice whose dt is 0.
ZeroDtSlice(desc) == [GoodSlice(desc) EXCEPT !.dt = 0]

\* A slice with no dt key.
NoDtSlice(desc) ==
    [main |-> [temp |-> 215, feels_like |-> 204, humidity |-> 50],
     weather |-> <<[description |-> desc, icon |-> "01d", main |-> "Sky", id |-> 800]>>,
     dt_txt |-> "day 0 03:00"]

SliceKinds == {GoodSlice(S_rain), ZeroDtSlice(S_rain), NoDtSlice(S_rain)}

SeqsUpTo(S, n) == UNION {[1..k -> S] : k \in 0..n}

FullList == [i \in 1..ForecastThreshold |-> GoodSlice(S_rain)]

FullListZeroDt == [i \in 1..ForecastThreshold |-> IF i = 2 THEN ZeroDtSlice(S_rain) ELSE GoodSlice(S_rain)]

SliceLists == SeqsUpTo(SliceKinds, MaxSlices) \cup {FullList, FullListZeroDt}

\* Bodies of a forecast response: with a 'list', or without one.
ForecastBodies == {[list |-> l] : l \in SliceLists} \cup {[cod |-> "200"]}

CurrentFull ==
    [name |-> "Paris",
     main |-> [temp |-> 215, humidity |-> 50],
     weather |-> <<[description |-> S_clear_sky]>>,
     dt |-> 2]

CurrentBare == [cod |-> 200]

CurrentBodies == {CurrentFull, CurrentBare}

Failures == {[status |-> HTTP_ERROR, body |-> EmptyDict]} \cup {[raise |-> m] : m \in ExcMessages}

CurrentOutcomes == {[status |-> HTTP_OK, body |-> b] : b \in CurrentBodies} \cup Failures

ForecastOutcomes == {[status |-> HTTP_OK, body |-> b] : b \in ForecastBodies} \cup Failures

\* A date string of a request: the day it names (days are counted from the
\* day of the run, Today) and whether it is zero-padded; strptime accepts
\* both, isoformat writes the padded one.
Today == 0

isoformat(day) == [day |-> day, padded |-> TRUE]

(***************************************************************************)
(* WeatherService.fetch_weather_data (src/services/weather_service.py)     *)
(***************************************************************************)
WeatherRequest(lat, lon) == [api |-> "weather", lat |-> lat, lon |-> lon]

ForecastRequest(lat, lon) == [api |-> "forecast", lat |-> lat, lon |-> lon]

ForecastRetryRequest(lat, lon) ==
    [api |-> "forecast", lat |-> lat, lon |-> lon, cnt |-> ForecastThreshold]

\* The debug logging calls datetime.fromtimestamp(item.get('dt')) on every
\* item of a non-empty list: a missing dt is fromtimestamp(None), a TypeError.
DebugLoggingRaises(forecast_data) ==
    LET l == Get(forecast_data, "list", << >>)
    IN  \E i \in 1..Len(l) : "dt" \notin DOMAIN l[i]

ServiceFetchError(cause, log) ==
    [ok |-> FALSE, data |-> PyNone,
     error |-> [text |-> "Weather data fetch error", cause |-> cause],
     log |-> log]

\* if current_response.status_code != 200
CurrentFailedOn404Only(current_response) == current_response.status = 404

CurrentFailed(current_response) == current_response.status # HTTP_OK

\* Whether the forecast is requested a second time.
NeedsRetryAlways(first) == ~Raises(first)

NeedsRetry(first) ==
    /\ ~Raises(first)
    /\ first.status = HTTP_OK
    /\ Len(Get(first.body, "list", << >>)) < ForecastThreshold

ServiceSuccess(current_data, forecast_data, log) ==
    [ok |-> TRUE,
     data |-> [current |-> current_data, forecast |-> forecast_data],
     error |-> PyNone,
     log |-> log]

fetch_weather_data(lat, lon, start_date, end_date, up) ==
    LET l1 == <<WeatherRequest(lat, lon)>>
        l2 == Append(l1, ForecastRequest(lat, lon))
        l3 == Append(l2, ForecastRetryRequest(lat, lon))
    IN
    IF Raises(up.cur) THEN ServiceFetchError(up.cur.raise, l1)
    ELSE IF CurrentFailed(up.cur)
    THEN [ok |-> FALSE, data |-> PyNone,
          error |-> [text |-> "OpenWeather API current weather error",
                     status |-> up.cur.status],
          log |-> l1]
    ELSE IF Raises(up.fc1) THEN ServiceFetchError(up.fc1.raise, l2)
    ELSE LET retry == NeedsRetry(up.fc1)
             log == IF retry THEN l3 ELSE l2
             forecast_response == IF retry THEN up.fc2 ELSE up.fc1
         IN  IF Raises(forecast_response)
             THEN ServiceFetchError(forecast_response.raise, log)
             ELSE IF forecast_response.status # HTTP_OK
             THEN [ok |-> FALSE, data |-> PyNone,
                   error |-> [text |-> "OpenWeather API forecast error",
                              status |-> forecast_response.status],
                   log |-> log]
             ELSE IF DebugLoggingRaises(forecast_response.body)
             THEN ServiceFetchError("TypeError", log)
             ELSE ServiceSuccess(up.cur.body, forecast_response.body, log)

(***************************************************************************)
(* get_weather_data (src/app.py)                                           *)
(***************************************************************************)
\* if timestamp:
Truthy(item) == "dt" \in DOMAIN item /\ item.dt # 0

\* One converted item of forecast_list.  For the integer timestamps of the
\* upstream API, int(datetime.fromtimestamp(ts).timestamp()) is ts.
ConvertSlice(item) ==
    [dt |-> item.dt,
     main |-> Get(item, "main", EmptyDict),
     weather |-> Get(item, "weather", << >>),
     wind |-> Get(item, "wind", EmptyDict),
     pop |-> Get(item, "pop", 0),
     visibility |-> Get(item, "visibility", 0),
     clouds |-> Get(item, "clouds", EmptyDict),
     dt_txt |-> Get(item, "dt_txt", "")]

ConvertList(l) ==
    LET kept == SelectSeq(l, Truthy)
    IN  [i \in 1..Len(kept) |-> ConvertSlice(kept[i])]

ConvertCurrent(current_data, lat, lon, clock) ==
    [name |-> Get(current_data, "name", "Current Location"),
     sys |-> Get(current_data, "sys", [country |-> "US"]),
     coord |-> Get(current_data, "coord", [lat |-> lat, lon |-> lon]),
     main |-> Get(current_data, "main", EmptyDict),
     weather |-> Get(current_data, "weather", << >>),
     wind |-> Get(current_data, "wind", EmptyDict),
     visibility |-> Get(current_data, "visibility", 0),
     dt |-> Get(current_data, "dt", clock)]

AppWeatherData(current_data, forecast_data, lat, lon, start_date, end_date, clock) ==
    [current |-> ConvertCurrent(current_data, lat, lon, clock),
     forecast |-> [list |-> ConvertList(Get(forecast_data, "list", << >>))],
     hourly |-> [hourly |-> ConvertList(Get(forecast_data, "list", << >>)),
                 note |-> "Using OpenWeather API 5-day forecast"],
     date_range |-> [start |-> isoformat(start_date), end |-> isoformat(end_date)]]

\* start_date and end_date are date objects here (days).
get_weather_data(lat, lon, start_date, end_date, up, clock) ==
    LET l1 == <<WeatherRequest(lat, lon)>>
        l2 == Append(l1, ForecastRequest(lat, lon))
    IN
    IF Raises(up.cur)
    THEN [data |-> PyNone, error |-> [text |-> up.cur.raise], log |-> l1]
    ELSE IF CurrentFailed(up.cur)
    THEN [data |-> PyNone,
          error |-> [text |-> "OpenWeather API current weather error",
                     status |-> up.cur.status],
          log |-> l1]
    ELSE IF Raises(up.fc1)
    THEN [data |-> PyNone, error |-> [text |-> up.fc1.raise], log |-> l2]
    ELSE IF up.fc1.status # HTTP_OK
    THEN [data |-> PyNone,
          error |-> [text |-> "OpenWeather API forecast error",
                     status |-> up.fc1.status],
          log |-> l2]
    ELSE [data |-> AppWeatherData(up.cur.body, up.fc1.body, lat, lon,
                                  start_date, end_date, clock),
          error |-> PyNone,
          log |-> l2]

(***************************************************************************)
(* The geocoder (geopy's Nominatim).                                       *)
(***************************************************************************)
\* Where the geocoder puts each place it knows (degrees).
Places ==
    [Paris |-> [latitude |-> 49, longitude |-> 2, address |-> "Paris, France"],
     Oslo |-> [latitude |-> 60, longitude |-> 11, address |-> "Oslo, Norge"]]

KnownLocations == DOMAIN Places

\* What geolocator.geocode(location, timeout=10) does: it returns a place or
\* None, or raises.
GeocodeOutcomes(location) ==
    (IF location \in KnownLocations
     THEN {[found |-> Places[location]]}
     ELSE {[found |-> PyNone]})
    \cup {[raise |-> "GeocoderTimedOut"], [raise |-> "GeocoderServiceError"]}

GeocodeRequest(location) == [api |-> "geocode", q |-> location]

(***************************************************************************)
(* WeatherService.validate_location (src/services/weather_service.py)      *)
(***************************************************************************)
validate_location_service(location, geo) ==
    IF Raises(geo)
    THEN IF geo.raise \in {"GeocoderTimedOut", "GeocoderUnavailable"}
         THEN [ok |-> FALSE, data |-> PyNone,
               error |-> [text |-> "Geocoding service error", cause |-> geo.raise],
               log |-> <<GeocodeRequest(location)>>]
         ELSE [ok |-> FALSE, data |-> PyNone,
               error |-> [text |-> "Location validation error", cause |-> geo.raise],
               log |-> <<GeocodeRequest(location)>>]
    ELSE IF geo.found # PyNone
    THEN [ok |-> TRUE,
          data |-> [latitude |-> geo.found.latitude,
                    longitude |-> geo.found.longitude,
                    display_name |-> geo.found.address],
          error |-> PyNone,
          log |-> <<GeocodeRequest(location)>>]
    ELSE [ok |-> FALSE, data |-> PyNone,
          error |-> [text |-> "Location not found", location |-> location],
          log |-> <<GeocodeRequest(location)>>]

(***************************************************************************)
(* WeatherService.get_todays_weather_3hour                                 *)
(***************************************************************************)
\* round() of a number given in tenths: to the nearest integer, halves to even.
round(tenths) ==
    LET q == tenths \div 10
        r == tenths % 10
    IN  IF r > 5 \/ (r = 5 /\ q % 2 = 1) THEN q + 1 ELSE q

\* The keys the loop reads with item[...]: a missing one is a KeyError.
HourlyItemRaises(item) ==
    \/ "dt" \notin DOMAIN item
    \/ "main" \notin DOMAIN item
    \/ {"temp", "feels_like", "humidity"} \ DOMAIN item.main # {}
    \/ "weather" \notin DOMAIN item
    \/ item.weather = << >>
    \/ {"description", "icon", "main", "id"} \ DOMAIN item.weather[1] # {}

\* dt counts the hours since the midnight that starts Today.
HourlyItem(item) ==
    [time |-> item.dt % 24,
     date |-> item.dt \div 24,
     temperature |-> round(item.main.temp),
     feels_like |-> round(item.main.feels_like),
     humidity |-> item.main.humidity,
     description |-> item.weather[1].description,
     icon |-> item.weather[1].icon,
     weather_main |-> item.weather[1].main,
     weather_id |-> item.weather[1].id]

get_todays_weather_3hour(location, geo, up) ==
    LET loc == validate_location_service(location, geo)
    IN
    IF ~loc.ok
    THEN [ok |-> FALSE, data |-> PyNone, error |-> loc.error, log |-> loc.log]
    ELSE
    LET w == fetch_weather_data(loc.data.latitude, loc.data.longitude,
                                isoformat(Today), isoformat(Today + 1), up)
        log == loc.log \o w.log
    IN
    IF ~w.ok
    THEN [ok |-> FALSE, data |-> PyNone, error |-> w.error, log |-> log]
    ELSE
    LET forecast_list == Get(Get(w.data, "forecast", EmptyDict), "list", << >>)
    IN
    IF \E i \in 1..Len(forecast_list) : HourlyItemRaises(forecast_list[i])
    THEN [ok |-> FALSE, data |-> PyNone,
          error |-> [text |-> "Today's weather error", cause |-> "KeyError"],
          log |-> log]
    ELSE
    LET hourly_data == [i \in 1..Len(forecast_list) |-> HourlyItem(forecast_list[i])]
    IN  [ok |-> TRUE,
         data |-> [location |-> loc.data.display_name,
                   coordinates |-> [lat |-> loc.data.latitude,
                                    lon |-> loc.data.longitude],
                   current_weather |-> Get(w.data, "current", PyNone),
                   hourly_forecast |-> hourly_data,
                   most_common_weather |-> get_most_descriptive_weather(hourly_data),
                   total_periods |-> Len(hourly_data)],
         error |-> PyNone,
         log |-> log]

(***************************************************************************)
(* Date validation.                                                        *)
(***************************************************************************)
PastWindowDays == 365

FutureWindowDays == 7

MaxRangeDays == 7

BadDate == [bad |-> TRUE]

\* datetime.strptime(s, '%Y-%m-%d') raises ValueError
StrptimeRaises(s) == "bad" \in DOMAIN s

\* datetime.strptime(s, '%Y-%m-%d').date()
strptime(s) == s.day

\* if start > end  (src/app.py)
StartAfterEndUnchecked(start, end) == FALSE

StartAfterEnd(start, end) == start > end

\* days_diff = (end - start).days; if days_diff > 7  (WeatherService)
ExceedsRangeOffByOne(start, end) == end - start > MaxRangeDays + 1

ExceedsRange(start, end) == end - start > MaxRangeDays

\* validate_date_range of src/app.py: (True, (start, end)) or (False, reason)
validate_date_range_app(start_date, end_date) ==
    IF StrptimeRaises(start_date) \/ StrptimeRaises(end_date)
    THEN [ok |-> FALSE, error |-> [text |-> "Invalid date format. Use YYYY-MM-DD"]]
    ELSE LET start == strptime(start_date)
             end == strptime(end_date)
         IN  IF StartAfterEnd(start, end)
             THEN [ok |-> FALSE, error |-> [text |-> "Start date cannot be after end date"]]
             ELSE IF start < Today - PastWindowDays
             THEN [ok |-> FALSE,
                   error |-> [text |-> "Start date cannot be more than 1 year in the past"]]
             ELSE IF end > Today + FutureWindowDays
             THEN [ok |-> FALSE,
                   error |-> [text |-> "End date cannot be more than 7 days in the future"]]
             ELSE [ok |-> TRUE, start |-> start, end |-> end]

\* WeatherService.validate_date_range: (True, None) or (False, reason)
validate_date_range_service(start_date, end_date) ==
    IF StrptimeRaises(start_date) \/ StrptimeRaises(end_date)
    THEN [ok |-> FALSE, error |-> [text |-> "Invalid date format", cause |-> "ValueError"]]
    ELSE LET start == strptime(start_date)
             end == strptime(end_date)
         IN  IF start < Today
             THEN [ok |-> FALSE, error |-> [text |-> "Start date cannot be in the past"]]
             ELSE IF end < start
             THEN [ok |-> FALSE, error |-> [text |-> "End date must be after start date"]]
             ELSE IF ExceedsRange(start, end)
             THEN [ok |-> FALSE, error |-> [text |-> "Date range cannot exceed 7 days"]]
             ELSE [ok |-> TRUE, error |-> PyNone]

(***************************************************************************)
(* validate_location of src/app.py: it catches the geocoder's timeout and  *)
(* unavailability only; any other exception leaves the function.           *)
(***************************************************************************)
validate_location_app(location, geo) ==
    IF Raises(geo)
    THEN IF geo.raise \in {"GeocoderTimedOut", "GeocoderUnavailable"}
         THEN [ok |-> FALSE, raised |-> FALSE,
               error |-> [text |-> "Location service unavailable"]]
         ELSE [ok |-> FALSE, raised |-> TRUE, error |-> [text |-> geo.raise]]
    ELSE IF geo.found # PyNone
    THEN [ok |-> TRUE, raised |-> FALSE,
          data |-> [latitude |-> geo.found.latitude,
                    longitude |-> geo.found.longitude,
                    address |-> geo.found.address]]
    ELSE [ok |-> FALSE, raised |-> FALSE, error |-> [text |-> "Location not found"]]

(***************************************************************************)
(* Calls of the fetch functions on their own.                              *)
(***************************************************************************)
\* What the weather API does on a second forecast request (the one with cnt).
RetryOutcomes ==
    {[status |-> HTTP_OK, body |-> [list |-> l]] :
        l \in {FullList, FullListZeroDt, << >>, <<GoodSlice(S_rain)>>, <<NoDtSlice(S_rain)>>}}
    \cup {[status |-> HTTP_OK, body |-> [cod |-> "200"]]}
    \cup Failures

Upstreams == [cur : CurrentOutcomes, fc1 : ForecastOutcomes, fc2 : RetryOutcomes]

Coordinates == {<<Places.Paris.latitude, Places.Paris.longitude>>}

Idle == [fn |-> "idle"]

CallFetchWeatherData ==
    /\ impl = "refactored"
    /\ fcall = Idle /\ tcall = Idle
    /\ \E c \in Coordinates, end \in {Today + 7}, up \in Upstreams :
          /\ fcall' = [fn |-> "fetch_weather_data",
                       lat |-> c[1], lon |-> c[2],
                       start_date |-> isoformat(Today), end_date |-> isoformat(end),
                       up |-> up,
                       result |-> fetch_weather_data(c[1], c[2], isoformat(Today),
                                                     isoformat(end), up)]
          /\ UNCHANGED <<session, impl, store, next_id, now, resp, tcall>>

CallGetWeatherData ==
    /\ impl = "app"
    /\ fcall = Idle /\ tcall = Idle
    /\ \E c \in Coordinates, end \in {Today + 7}, up \in Upstreams :
          /\ fcall' = [fn |-> "get_weather_data",
                       lat |-> c[1], lon |-> c[2],
                       start_date |-> Today, end_date |-> end,
                       up |-> up,
                       result |-> get_weather_data(c[1], c[2], Today, end, up, now)]
          /\ UNCHANGED <<session, impl, store, next_id, now, resp, tcall>>

Init ==
    /\ impl \in {"app", "refactored"}
    /\ store = << >>
    /\ next_id = 1
    /\ now = 0
    /\ resp = [op |-> "none"]
    /\ fcall = Idle
    /\ tcall = Idle
    /\ session = NoSessions

\* The call returns: the next one starts from scratch.
ReturnFetch ==
    /\ fcall # Idle
    /\ fcall' = Idle
    /\ UNCHANGED <<session, impl, store, next_id, now, resp, tcall>>

(***************************************************************************)
(* Calls of the today's-weather functions.                                 *)
(***************************************************************************)
MaxDescLen == 3

Descriptions ==
    {S_rain, S_Rain, S_clear_sky, S_smoke, S_thunderstorm_with_rain, S_volcanic_ash}

\* The forecast lists the upstream serves for today's weather.
TodayLists == SeqsUpTo({GoodSlice(d) : d \in Descriptions}, MaxDescLen)

\* The upstream answers both forecast requests with the same list.
TodayUpstreams ==
    {[cur |-> [status |-> HTTP_OK, body |-> CurrentFull],
      fc1 |-> [status |-> HTTP_OK, body |-> [list |-> l]],
      fc2 |-> [status |-> HTTP_OK, body |-> [list |-> l]]] : l \in TodayLists}
    \cup
    {[cur |-> c, fc1 |-> f, fc2 |-> f] : c \in Failures, f \in Failures}

\* get_todays_weather and get_youtube_videos of src/app_refactored.py: the
\* answer to a service result (is_valid, data, error).
RouteErrorStatus == 400

route_response(result) ==
    IF ~result.ok
    THEN [status |-> RouteErrorStatus, error |-> result.error]
    ELSE [status |-> 200, data |-> result.data]

CallTodaysWeather ==
    /\ impl = "refactored"
    /\ fcall = Idle /\ tcall = Idle
    /\ \E location \in KnownLocations \cup {"Atlantis"} :
       \E geo \in GeocodeOutcomes(location), up \in TodayUpstreams :
          /\ tcall' = [fn |-> "get_todays_weather_3hour",
                       location |-> location, geo |-> geo, up |-> up,
                       result |-> get_todays_weather_3hour(location, geo, up),
                       response |-> route_response(
                                       get_todays_weather_3hour(location, geo, up))]
          /\ UNCHANGED <<session, impl, store, next_id, now, resp, fcall>>

CallMostDescriptive ==
    /\ impl = "refactored"
    /\ fcall = Idle /\ tcall = Idle
    /\ \E hourly_data \in SeqsUpTo({[description |-> d] : d \in Descriptions}, MaxDescLen) :
          /\ tcall' = [fn |-> "get_most_descriptive_weather",
                       hourly_data |-> hourly_data,
                       most_frequent |-> IF hourly_data = << >> THEN PyNone
                                         ELSE most_frequent(hourly_data),
                       result |-> get_most_descriptive_weather(hourly_data)]
          /\ UNCHANGED <<session, impl, store, next_id, now, resp, fcall>>

ReturnToday ==
    /\ tcall # Idle
    /\ tcall' = Idle
    /\ UNCHANGED <<session, impl, store, next_id, now, resp, fcall>>

(***************************************************************************)
(* The CRUD requests.  Every request reads the clock once (now) and the    *)
(* clock moves on by one tick per request.                                 *)
(***************************************************************************)
MaxOps == 2

Days == {Today - 366, Today - 8, Today, Today + 8}

DateStrings == {isoformat(d) : d \in Days} \cup {BadDate}

Locations == KnownLocations \cup {"Atlantis"}

\* Pairs of date strings: every pair of days, and an unparsable string on
\* either side.
DatePairs ==
    {<<isoformat(a), isoformat(b)>> : a \in Days, b \in Days}
    \cup {<<BadDate, isoformat(Today)>>, <<isoformat(Today), BadDate>>}

FullBodies ==
    {[location |-> l, start_date |-> p[1], end_date |-> p[2]] :
        l \in Locations, p \in DatePairs}

\* JSON bodies of a POST: complete ones, one without each field, and none.
CreateBodies ==
    FullBodies
    \cup {[start_date |-> isoformat(Today), end_date |-> isoformat(Today)],
          [location |-> "Paris", end_date |-> isoformat(Today)],
          [location |-> "Paris", start_date |-> isoformat(Today)],
          EmptyDict}

\* JSON bodies of a PUT: all three fields, one field alone, a body with none
\* of them, and no body.
UpdateBodies ==
    FullBodies
    \cup [location : Locations]
    \cup [start_date : DateStrings]
    \cup [end_date : DateStrings]
    \cup {[note |-> "x"], EmptyDict}

\* What the weather API does during a CRUD request.
OkForecast == [status |-> HTTP_OK, body |-> [list |-> <<GoodSlice(S_rain)>>]]

CrudUpstreams ==
    {[cur |-> [status |-> HTTP_OK, body |-> CurrentFull], fc1 |-> OkForecast, fc2 |-> OkForecast],
     [cur |-> [status |-> HTTP_ERROR, body |-> EmptyDict], fc1 |-> OkForecast, fc2 |-> OkForecast]}
    \cup {[cur |-> [raise |-> m], fc1 |-> OkForecast, fc2 |-> OkForecast] : m \in ExcMessages}

\* if error:  (error is None or a str)
StrTruthy(error) == error # PyNone /\ error # [text |-> ""]

\* if not all([location, start_date, end_date])
MissingFields(data) == ~({"location", "start_date", "end_date"} \subseteq DOMAIN data)

\* The ids a request may name: those handed out so far and the next one.
RequestIds == 1..next_id

\* What a request has done so far: the validations, the upstream calls with
\* the requests they sent, and the commit, in the order of the handler's
\* statements; ok tells whether the step succeeded.
Step(name, ok, requests) == [step |-> name, ok |-> ok, requests |-> requests]

DateStep(d) == Step("validate_date_range", d.ok, << >>)

LocationStep(location, l) == Step("validate_location", l.ok, <<GeocodeRequest(location)>>)

\* get_weather_data returns (data, None) or (None, error)
AppWeatherStep(w) == Step("get_weather_data", w.data # PyNone, w.log)

WeatherStep(w) == Step("fetch_weather_data", w.ok, w.log)

CommitStep(commit_ok) == Step("commit", commit_ok, << >>)

Response(op, id, status, error, failed, committed, steps) ==
    [op |-> op, id |-> id, status |-> status, error |-> error,
     failed |-> failed, committed |-> committed, steps |-> steps]

\* WeatherRecord(...) with the column defaults of created_at and updated_at.
NewRow(id, location, latitude, longitude, start_date, end_date, temperature_data) ==
    [id |-> id, location |-> location, latitude |-> latitude, longitude |-> longitude,
     start_date |-> start_date, end_date |-> end_date,
     temperature_data |-> temperature_data,
     created_at |-> now, updated_at |-> now]

\* An update that leaves updated_at as it was.
updated_stale(record, clock) == record

\* record.updated_at = datetime.utcnow()
updated(record, clock) == [record EXCEPT !.updated_at = clock]

\* The request ends without a commit.  Flask-SQLAlchemy removes the scoped
\* session when the request's application context is torn down, and
\* db.session.rollback() / session.close() do the same earlier: what the handler
\* assigned to loaded rows (pending) is discarded, the table keeps committed.
SessionRemove(committed, pending) == committed

NotCommitted(pending, r) ==
    /\ store' = SessionRemove(store, pending)
    /\ next_id' = next_id
    /\ resp' = r

\* db.session.commit() of a session holding the rows of pending.
Committed(pending, r) ==
    /\ store' = pending
    /\ resp' = r

\* The UPDATE statement that the flush of a commit emits for a loaded row: it
\* sets the columns whose value differs from the one the session loaded, on
\* the row as the table holds it at that moment.
\* A column in strings was assigned a str where the loaded value is a date:
\* the two never compare equal, so the column is always set.
flush(current, loaded, record, strings) ==
    [c \in DOMAIN record |->
        IF c \in strings \/ record[c] # loaded[c] THEN record[c] ELSE current[c]]

\* The response of an update that committed, with the row object the handler
\* had assigned to and with what the request met: its body and the outcomes
\* of its upstream calls.
Wrote(r, record, request) ==
    [op |-> r.op, id |-> r.id, status |-> r.status, error |-> r.error,
     failed |-> r.failed, committed |-> r.committed, steps |-> r.steps,
     record |-> record, request |-> request]

\* The answer of the route to a body it refuses, with that body.
Sent(r, data) ==
    [op |-> r.op, id |-> r.id, status |-> r.status, error |-> r.error,
     failed |-> r.failed, committed |-> r.committed, steps |-> r.steps,
     body |-> data]

Insert(row) == [i \in DOMAIN store \cup {row.id} |-> IF i = row.id THEN row ELSE store[i]]

Remove(id) == [i \in DOMAIN store \ {id} |-> store[i]]

(***************************************************************************)
(* src/app.py: POST /api/weather                                           *)
(***************************************************************************)
create_weather_record_app ==
    /\ impl = "app"
    /\ now < MaxOps
    /\ now' = now + 1
    /\ UNCHANGED <<session, impl, fcall, tcall>>
    /\ \E data \in CreateBodies :
        IF data = EmptyDict
        THEN NotCommitted(store, Response("create", 0, 400,
                 [text |-> "No data provided"], "input", FALSE,
                 << >>))
        ELSE IF MissingFields(data)
        THEN NotCommitted(store, Response("create", 0, 400,
                 [text |-> "Missing required fields: location, start_date, end_date"],
                 "input", FALSE,
                 << >>))
        ELSE
        LET d == validate_date_range_app(data.start_date, data.end_date) IN
        IF ~d.ok
        THEN NotCommitted(store, Response("create", 0, 400, d.error, "date", FALSE,
                 <<DateStep(d)>>))
        ELSE
        \E geo \in GeocodeOutcomes(data.location) :
        LET l == validate_location_app(data.location, geo) IN
        IF l.raised
        THEN NotCommitted(store, Response("create", 0, 500, l.error, "location", FALSE,
                 <<DateStep(d), LocationStep(data.location, l)>>))
        ELSE IF ~l.ok
        THEN NotCommitted(store, Response("create", 0, 400, l.error, "location", FALSE,
                 <<DateStep(d), LocationStep(data.location, l)>>))
        ELSE
        \E up \in CrudUpstreams :
        LET w == get_weather_data(l.data.latitude, l.data.longitude, d.start, d.end, up, now) IN
        IF StrTruthy(w.error)
        THEN NotCommitted(store, Response("create", 0, 500, w.error, "weather", FALSE,
                 <<DateStep(d), LocationStep(data.location, l), AppWeatherStep(w)>>))
        ELSE
        LET new_record == NewRow(next_id, data.location, l.data.latitude, l.data.longitude,
                                 d.start, d.end, w.data)
        IN
        \E commit_ok \in BOOLEAN :
        IF ~commit_ok
        THEN NotCommitted(store, Response("create", 0, 500,
                 [text |-> "OperationalError"], "commit", FALSE,
                 <<DateStep(d), LocationStep(data.location, l), AppWeatherStep(w),
                   CommitStep(commit_ok)>>))
        ELSE /\ Committed(Insert(new_record),
                    Response("create", next_id, 201, PyNone,
                             IF w.data = PyNone THEN "weather" ELSE "none", TRUE,
                 <<DateStep(d), LocationStep(data.location, l), AppWeatherStep(w),
                   CommitStep(commit_ok)>>))
             /\ next_id' = next_id + 1

(***************************************************************************)
(* src/app.py: PUT /api/weather/<record_id>                                *)
(***************************************************************************)
NoGeo == [found |-> PyNone]

NoUpstream == [cur |-> [raise |-> ""], fc1 |-> [raise |-> ""], fc2 |-> [raise |-> ""]]

\* The upstream outcomes a PUT with this body meets: the geocoder's when the
\* body names a location, the weather API's when it names any of the fields.
UpdateGeocodes(data) ==
    IF "location" \in DOMAIN data THEN GeocodeOutcomes(data.location) ELSE {NoGeo}

UpdateUpstreams(data) ==
    IF {"location", "start_date", "end_date"} \cap DOMAIN data # {}
    THEN CrudUpstreams ELSE {NoUpstream}

Outcome(status, error, failed, steps, record) ==
    [status |-> status, error |-> error, failed |-> failed, steps |-> steps,
     record |-> record]

\* update_weather_record of src/app.py from data = request.get_json() up to
\* db.session.commit(), for the row object record that
\* WeatherRecord.query.get(record_id) returned: the answer so far and the row
\* object with what was assigned to it.
update_outcome_app(record, data, geo, up, clock) ==
    IF data = EmptyDict
    THEN Outcome(400, [text |-> "No data provided"], "input", << >>, record)
    ELSE
    LET has_location == "location" \in DOMAIN data
        has_dates == "start_date" \in DOMAIN data \/ "end_date" \in DOMAIN data
        refresh == has_location \/ has_dates
        l == validate_location_app(Get(data, "location", ""), geo)
        sl == IF has_location THEN <<LocationStep(data.location, l)>> ELSE << >>
    IN
    IF has_location /\ l.raised
    THEN Outcome(500, l.error, "location", sl, record)
    ELSE IF has_location /\ ~l.ok
    THEN Outcome(400, l.error, "location", sl, record)
    ELSE
    LET r1 == IF has_location
              THEN [record EXCEPT !.location = data.location,
                                  !.latitude = l.data.latitude,
                                  !.longitude = l.data.longitude]
              ELSE record
        d == validate_date_range_app(
                 Get(data, "start_date", isoformat(record.start_date)),
                 Get(data, "end_date", isoformat(record.end_date)))
        sd == IF has_dates THEN <<DateStep(d)>> ELSE << >>
    IN
    IF has_dates /\ ~d.ok
    THEN Outcome(400, d.error, "date", sl \o sd, r1)
    ELSE
    LET r2 == IF has_dates
              THEN [r1 EXCEPT !.start_date = d.start, !.end_date = d.end]
              ELSE r1
        w == get_weather_data(r2.latitude, r2.longitude, r2.start_date, r2.end_date, up, clock)
        sw == IF refresh THEN <<AppWeatherStep(w)>> ELSE << >>
    IN
    IF refresh /\ StrTruthy(w.error)
    THEN Outcome(500, w.error, "weather", sl \o sd \o sw, r2)
    ELSE
    LET r3 == IF refresh THEN [r2 EXCEPT !.temperature_data = w.data] ELSE r2
        r4 == updated(r3, clock)
    IN  Outcome(200, PyNone, IF refresh /\ w.data = PyNone THEN "weather" ELSE "none",
                sl \o sd \o sw, r4)

\* The handler from data = request.get_json() on.
update_loaded_record_app(record_id, record) ==
    \E data \in UpdateBodies :
    \E geo \in UpdateGeocodes(data), up \in UpdateUpstreams(data) :
    LET o == update_outcome_app(record, data, geo, up, now) IN
    IF o.status # 200
    THEN NotCommitted([store EXCEPT ![record_id] = o.record],
             Response("update", record_id, o.status, o.error, o.failed, FALSE, o.steps))
    ELSE
    \E commit_ok \in BOOLEAN :
    IF ~commit_ok
    THEN NotCommitted([store EXCEPT ![record_id] = o.record],
             Response("update", record_id, 500, [text |-> "OperationalError"],
                      "commit", FALSE, o.steps \o <<CommitStep(commit_ok)>>))
    ELSE /\ Committed([store EXCEPT ![record_id] =
                           flush(store[record_id], record, o.record, {})],
                Wrote(Response("update", record_id, 200, PyNone, o.failed, TRUE,
                               o.steps \o <<CommitStep(commit_ok)>>),
                      o.record, [data |-> data, geo |-> geo, up |-> up]))
         /\ next_id' = next_id

update_weather_record_app ==
    /\ impl = "app"
    /\ now < MaxOps
    /\ now' = now + 1
    /\ UNCHANGED <<session, impl, fcall, tcall>>
    /\ \E record_id \in RequestIds :
        IF record_id \notin DOMAIN store
        THEN NotCommitted(store, Response("update", record_id, 404,
                 [text |-> "Record not found"], "not_found", FALSE,
                 << >>))
        ELSE update_loaded_record_app(record_id, store[record_id])

(***************************************************************************)
(* src/app.py: GET and DELETE /api/weather/<record_id>                     *)
(***************************************************************************)
read_weather_record_app ==
    /\ impl = "app"
    /\ now < MaxOps
    /\ now' = now + 1
    /\ UNCHANGED <<session, impl, fcall, tcall>>
    /\ \E record_id \in RequestIds :
        IF record_id \notin DOMAIN store
        THEN NotCommitted(store, Response("read", record_id, 404,
                 [text |-> "Record not found"], "not_found", FALSE,
                 << >>))
        ELSE NotCommitted(store, Response("read", record_id, 200, PyNone, "none", FALSE,
                 << >>))

delete_weather_record_app ==
    /\ impl = "app"
    /\ now < MaxOps
    /\ now' = now + 1
    /\ UNCHANGED <<session, impl, fcall, tcall>>
    /\ \E record_id \in RequestIds :
        IF record_id \notin DOMAIN store
        THEN NotCommitted(store, Response("delete", record_id, 404,
                 [text |-> "Record not found"], "not_found", FALSE,
                 << >>))
        ELSE
        \E commit_ok \in BOOLEAN :
        IF ~commit_ok
        THEN NotCommitted(store, Response("delete", record_id, 500,
                 [text |-> "OperationalError"], "commit", FALSE,
                 <<CommitStep(commit_ok)>>))
        ELSE /\ Committed(Remove(record_id),
                    Response("delete", record_id, 200, PyNone, "none", TRUE,
                 <<CommitStep(commit_ok)>>))
             /\ next_id' = next_id

NextApp ==
    \/ create_weather_record_app
    \/ update_weather_record_app
    \/ read_weather_record_app
    \/ delete_weather_record_app

(***************************************************************************)
(* src/app_refactored.py: POST /api/weather, with                          *)
(* WeatherService.create_weather_record.  The date column receives the     *)
(* validated string; the row holds the date it denotes.                    *)
(***************************************************************************)
create_weather_record_refactored ==
    /\ impl = "refactored"
    /\ now < MaxOps
    /\ now' = now + 1
    /\ UNCHANGED <<session, impl, fcall, tcall>>
    /\ \E data \in CreateBodies :
        IF data = EmptyDict
        THEN NotCommitted(store, Response("create", 0, 400,
                 [text |-> "No data provided"], "input", FALSE,
                 << >>))
        ELSE IF MissingFields(data)
        THEN NotCommitted(store, Response("create", 0, 400,
                 [text |-> "Missing required fields: location, start_date, end_date"],
                 "input", FALSE,
                 << >>))
        ELSE
        \E geo \in GeocodeOutcomes(data.location) :
        LET l == validate_location_service(data.location, geo) IN
        IF ~l.ok
        THEN NotCommitted(store, Response("create", 0, 400, l.error, "location", FALSE,
                 <<LocationStep(data.location, l)>>))
        ELSE
        LET d == validate_date_range_service(data.start_date, data.end_date) IN
        IF ~d.ok
        THEN NotCommitted(store, Response("create", 0, 400, d.error, "date", FALSE,
                 <<LocationStep(data.location, l), DateStep(d)>>))
        ELSE
        \E up \in CrudUpstreams :
        LET w == fetch_weather_data(l.data.latitude, l.data.longitude,
                                    data.start_date, data.end_date, up)
        IN
        IF ~w.ok
        THEN NotCommitted(store, Response("create", 0, 500, w.error, "weather", FALSE,
                 <<LocationStep(data.location, l), DateStep(d), WeatherStep(w)>>))
        ELSE
        LET weather_record == NewRow(next_id, data.location, l.data.latitude,
                                     l.data.longitude, strptime(data.start_date),
                                     strptime(data.end_date), w.data)
        IN
        \E commit_ok \in BOOLEAN :
        IF ~commit_ok
        THEN NotCommitted(store, Response("create", 0, 500,
                 [text |-> "Database error", cause |-> "OperationalError"],
                 "commit", FALSE,
                 <<LocationStep(data.location, l), DateStep(d), WeatherStep(w),
                   CommitStep(commit_ok)>>))
        ELSE /\ Committed(Insert(weather_record),
                    Response("create", next_id, 201, PyNone, "none", TRUE,
                 <<LocationStep(data.location, l), DateStep(d), WeatherStep(w),
                   CommitStep(commit_ok)>>))
             /\ next_id' = next_id + 1

(***************************************************************************)
(* src/app_refactored.py: PUT /api/weather/<record_id>, with               *)
(* WeatherService.update_weather_record                                    *)
(***************************************************************************)
\* 'not found' in error
NotFoundIn(error) == error.text \in {"Weather record not found", "Location not found"}

UpdateStatus(error) == IF NotFoundIn(error) THEN 400 ELSE 500

\* WeatherService.update_weather_record from validate_location up to
\* db_session.commit(), for the row object loaded that
\* get_weather_record_by_id returned, answered by the route.
update_outcome_refactored(loaded, data, geo, up, clock) ==
    LET l == validate_location_service(data.location, geo) IN
    IF ~l.ok
    THEN Outcome(UpdateStatus(l.error), l.error, "location",
                 <<LocationStep(data.location, l)>>, loaded)
    ELSE
    LET d == validate_date_range_service(data.start_date, data.end_date) IN
    IF ~d.ok
    THEN Outcome(UpdateStatus(d.error), d.error, "date",
                 <<LocationStep(data.location, l), DateStep(d)>>, loaded)
    ELSE
    LET w == fetch_weather_data(l.data.latitude, l.data.longitude,
                                data.start_date, data.end_date, up)
    IN
    IF ~w.ok
    THEN Outcome(UpdateStatus(w.error), w.error, "weather",
                 <<LocationStep(data.location, l), DateStep(d), WeatherStep(w)>>, loaded)
    ELSE
    LET record == updated([loaded EXCEPT
                              !.location = data.location,
                              !.start_date = strptime(data.start_date),
                              !.end_date = strptime(data.end_date),
                              !.latitude = l.data.latitude,
                              !.longitude = l.data.longitude,
                              !.temperature_data = w.data], clock)
    IN  Outcome(200, PyNone, "none",
                <<LocationStep(data.location, l), DateStep(d), WeatherStep(w)>>, record)

update_loaded_record_refactored(record_id, loaded, data) ==
    \E geo \in GeocodeOutcomes(data.location), up \in CrudUpstreams :
    LET o == update_outcome_refactored(loaded, data, geo, up, now) IN
    IF o.status # 200
    THEN NotCommitted(store,
             Response("update", record_id, o.status, o.error, o.failed, FALSE, o.steps))
    ELSE
    \E commit_ok \in BOOLEAN :
    IF ~commit_ok
    THEN NotCommitted([store EXCEPT ![record_id] = o.record],
             Response("update", record_id, 500,
                      [text |-> "Update error", cause |-> "OperationalError"],
                      "commit", FALSE, o.steps \o <<CommitStep(commit_ok)>>))
    ELSE /\ Committed([store EXCEPT ![record_id] =
                           flush(store[record_id], loaded, o.record,
                                 {"start_date", "end_date"})],
                Wrote(Response("update", record_id, 200, PyNone, "none", TRUE,
                               o.steps \o <<CommitStep(commit_ok)>>),
                      o.record, [data |-> data, geo |-> geo, up |-> up]))
         /\ next_id' = next_id

update_weather_record_refactored ==
    /\ impl = "refactored"
    /\ now < MaxOps
    /\ now' = now + 1
    /\ UNCHANGED <<session, impl, fcall, tcall>>
    /\ \E record_id \in RequestIds, data \in UpdateBodies :
        IF data = EmptyDict
        THEN NotCommitted(store, Sent(Response("update", record_id, 400,
                 [text |-> "No data provided"], "input", FALSE,
                 << >>), data))
        ELSE IF MissingFields(data)
        THEN NotCommitted(store, Sent(Response("update", record_id, 400,
                 [text |-> "Missing required fields: location, start_date, end_date"],
                 "input", FALSE,
                 << >>), data))
        ELSE IF record_id \notin DOMAIN store
        THEN NotCommitted(store, Response("update", record_id,
                 UpdateStatus([text |-> "Weather record not found"]),
                 [text |-> "Weather record not found"], "not_found", FALSE,
                 << >>))
        ELSE update_loaded_record_refactored(record_id, store[record_id], data)

(***************************************************************************)
(* src/app_refactored.py: GET and DELETE /api/weather/<record_id>          *)
(***************************************************************************)
get_weather_record_refactored ==
    /\ impl = "refactored"
    /\ now < MaxOps
    /\ now' = now + 1
    /\ UNCHANGED <<session, impl, fcall, tcall>>
    /\ \E record_id \in RequestIds :
        IF record_id \notin DOMAIN store
        THEN NotCommitted(store, Response("read", record_id, 404,
                 [text |-> "Weather record not found"], "not_found", FALSE,
                 << >>))
        ELSE NotCommitted(store, Response("read", record_id, 200, PyNone, "none", FALSE,
                 << >>))

delete_weather_record_refactored ==
    /\ impl = "refactored"
    /\ now < MaxOps
    /\ now' = now + 1
    /\ UNCHANGED <<session, impl, fcall, tcall>>
    /\ \E record_id \in RequestIds :
        IF record_id \notin DOMAIN store
        THEN NotCommitted(store, Response("delete", record_id, 404,
                 [text |-> "Weather record not found"], "not_found", FALSE,
                 << >>))
        ELSE
        \E commit_ok \in BOOLEAN :
        IF ~commit_ok
        THEN NotCommitted(store, Response("delete", record_id, 404,
                 [text |-> "Delete error", cause |-> "OperationalError"],
                 "commit", FALSE,
                 <<CommitStep(commit_ok)>>))
        ELSE /\ Committed(Remove(record_id),
                    Response("delete", record_id, 200, PyNone, "none", TRUE,
                 <<CommitStep(commit_ok)>>))
             /\ next_id' = next_id

(***************************************************************************)
(* src/app_refactored.py: POST /api/database/cleanup, with                 *)
(* DatabaseService.cleanup_old_records.  The clock counts days, and        *)
(* days_old is a number of days (negative ones included).                  *)
(***************************************************************************)
DefaultDaysOld == 30

DaysOld == {-1, 0, 1, DefaultDaysOld}

\* JSON bodies of the cleanup request: with days_old, and none.
CleanupBodies == [days_old : DaysOld] \cup {EmptyDict}

\* WeatherRecord.created_at <= cutoff_date
created_not_after(record, cutoff_date) == record.created_at <= cutoff_date

\* WeatherRecord.created_at < cutoff_date
created_before(record, cutoff_date) == record.created_at < cutoff_date

CleanupResponse(status, error, failed, committed, deleted_count, days_old) ==
    [op |-> "cleanup", id |-> 0, status |-> status, error |-> error,
     failed |-> failed, committed |-> committed,
     steps |-> <<CommitStep(committed)>>,
     deleted_count |-> deleted_count, days_old |-> days_old]

cleanup_old_records ==
    /\ impl = "refactored"
    /\ now < MaxOps
    /\ now' = now + 1
    /\ UNCHANGED <<session, impl, fcall, tcall>>
    /\ \E data \in CleanupBodies :
        LET days_old == Get(data, "days_old", DefaultDaysOld)
            cutoff_date == now - days_old
            old == {i \in DOMAIN store : created_before(store[i], cutoff_date)}
            deleted_records == Cardinality(old)
        IN
        \E commit_ok \in BOOLEAN :
        IF ~commit_ok
        THEN \* except SQLAlchemyError: session.rollback(); return 0
             NotCommitted([i \in DOMAIN store \ old |-> store[i]],
                 CleanupResponse(200, PyNone, "commit", FALSE, 0, days_old))
        ELSE /\ Committed([i \in DOMAIN store \ old |-> store[i]],
                    CleanupResponse(200, PyNone, "none", TRUE, deleted_records, days_old))
             /\ next_id' = next_id

NextRefactored ==
    \/ create_weather_record_refactored
    \/ update_weather_record_refactored
    \/ get_weather_record_refactored
    \/ delete_weather_record_refactored
    \/ cleanup_old_records

Next == NextApp \/ NextRefactored

Spec == Init /\ [][Next]_vars

(***************************************************************************)
(* The same requests on a table that already holds two records, created by *)
(* earlier requests on the two days before the clock starts.               *)
(***************************************************************************)
OkUpstream ==
    [cur |-> [status |-> HTTP_OK, body |-> CurrentFull], fc1 |-> OkForecast, fc2 |-> OkForecast]

\* The row a successful POST {location, today, today} committed at clock.
StoredRow(app, id, location, clock) ==
    LET p == Places[location] IN
    [id |-> id, location |-> location,
     latitude |-> p.latitude, longitude |-> p.longitude,
     start_date |-> Today, end_date |-> Today,
     temperature_data |->
         IF app = "app"
         THEN get_weather_data(p.latitude, p.longitude, Today, Today, OkUpstream, clock).data
         ELSE fetch_weather_data(p.latitude, p.longitude, isoformat(Today),
                                 isoformat(Today), OkUpstream).data,
     created_at |-> clock, updated_at |-> clock]

InitStored ==
    /\ impl \in {"app", "refactored"}
    /\ store = <<StoredRow(impl, 1, "Paris", -2), StoredRow(impl, 2, "Oslo", -1)>>
    /\ next_id = 3
    /\ now = 0
    /\ resp = [op |-> "none"]
    /\ fcall = Idle
    /\ tcall = Idle
    /\ session = NoSessions

SpecStored == InitStored /\ [][Next]_vars

(***************************************************************************)
(* The video and places APIs.  A search string is the location with the    *)
(* words the code appends to it.                                           *)
(***************************************************************************)
YoutubeRequest(location, words, max_results) ==
    [api |-> "youtube", q |-> [location |-> location, words |-> words],
     maxResults |-> max_results]

PlacesRequest(lat, lon, place_type, rankby) ==
    [api |-> "places", lat |-> lat, lon |-> lon, type |-> place_type, rankby |-> rankby]

DetailsRequest(place_id) == [api |-> "details", place_id |-> place_id]

\* s[:n]
Take(s, n) == SubSeq(s, 1, IF Len(s) < n THEN Len(s) ELSE n)

\* Exceptions of requests.exceptions.RequestException, among those raised.
RequestExceptions == {"Timeout", "ConnectionError"}

\* A response body that is not JSON: response.json() raises.
NotJson == [notjson |-> TRUE]

VideoItem(id) == [id |-> [videoId |-> id], snippet |-> [title |-> id]]

\* An item without the keys the service reads.
BareVideoItem == [id |-> EmptyDict]

YoutubeOutcomes ==
    {[status |-> HTTP_OK, body |-> [items |-> <<VideoItem("v1"), VideoItem("v2")>>]],
     [status |-> HTTP_OK, body |-> [items |-> <<BareVideoItem>>]],
     [status |-> HTTP_OK, body |-> EmptyDict],
     [status |-> 403, body |-> [error |-> [message |-> "quotaExceeded"]]],
     [status |-> 403, body |-> EmptyDict],
     [status |-> 403, body |-> NotJson],
     [status |-> HTTP_ERROR, body |-> EmptyDict],
     [raise |-> "Timeout"], [raise |-> "ConnectionError"], [raise |-> ""]}

\* An API key of the environment: configured or not.
ApiKeys == {PyNone, [key |-> "configured"]}

MockVideoCount == 3

MockVideos(location) ==
    [i \in 1..MockVideoCount |-> [id |-> [mock_video |-> i], location |-> location]]

VideoInfoRaises(item) ==
    ~("id" \in DOMAIN item /\ "videoId" \in DOMAIN item.id /\ "snippet" \in DOMAIN item)

VideoInfo(item) ==
    [id |-> item.id.videoId, title |-> item.snippet.title, url |-> [watch |-> item.id.videoId]]

(***************************************************************************)
(* ExternalAPIService.get_youtube_videos                                   *)
(***************************************************************************)
get_youtube_videos_service(location, max_results, key, up) ==
    LET log == <<YoutubeRequest(location, "travel tourism attractions", max_results)>> IN
    IF key = PyNone
    THEN [ok |-> TRUE, data |-> Take(MockVideos(location), max_results),
          error |-> PyNone, log |-> << >>]
    ELSE IF Raises(up)
    THEN [ok |-> FALSE, data |-> PyNone,
          error |-> [text |-> IF up.raise \in RequestExceptions
                              THEN "YouTube API request error"
                              ELSE "YouTube videos error",
                     cause |-> up.raise],
          log |-> log]
    ELSE IF up.status # HTTP_OK
    THEN [ok |-> FALSE, data |-> PyNone,
          error |-> [text |-> "YouTube API error", status |-> up.status], log |-> log]
    ELSE LET items == Get(up.body, "items", << >>) IN
         IF \E i \in DOMAIN items : VideoInfoRaises(items[i])
         THEN [ok |-> FALSE, data |-> PyNone,
               error |-> [text |-> "YouTube videos error", cause |-> "KeyError"],
               log |-> log]
         ELSE [ok |-> TRUE, data |-> [i \in DOMAIN items |-> VideoInfo(items[i])],
               error |-> PyNone, log |-> log]

(***************************************************************************)
(* get_youtube_videos (src/app.py)                                         *)
(***************************************************************************)
get_youtube_videos_app(location, max_results, key, up) ==
    LET log == <<YoutubeRequest(location, "weather travel", max_results)>> IN
    IF key = PyNone
    THEN [data |-> PyNone, error |-> [text |-> "YouTube API key not configured"],
          log |-> << >>]
    ELSE IF Raises(up)
    THEN [data |-> PyNone,
          error |-> IF up.raise = "Timeout"
                    THEN [text |-> "YouTube API request timed out"]
                    ELSE [text |-> up.raise],
          log |-> log]
    ELSE IF up.status = HTTP_OK
    THEN [data |-> Get(up.body, "items", << >>), error |-> PyNone, log |-> log]
    ELSE IF up.status = 403
    THEN [data |-> PyNone,
          error |-> IF up.body = NotJson
                    THEN [text |-> "YouTube API 403 Forbidden: Check API key and quota limits"]
                    ELSE [text |-> "YouTube API 403 Forbidden",
                          cause |-> Get(Get(up.body, "error", EmptyDict), "message",
                                        "Unknown 403 error")],
          log |-> log]
    ELSE [data |-> PyNone,
          error |-> [text |-> "YouTube API error", status |-> up.status], log |-> log]

(***************************************************************************)
(* Places.  Ratings are in tenths.                                         *)
(***************************************************************************)
MaxPlaces == 2

PlaceKinds ==
    {[place_id |-> "p1", name |-> "A", rating |-> 45, user_ratings_total |-> 10],
     [place_id |-> "p2", name |-> "B", rating |-> 48, user_ratings_total |-> 10],
     [place_id |-> "p3", name |-> "C"],
     [name |-> "D", rating |-> 30, user_ratings_total |-> 5]}

PlacesLists == SeqsUpTo(PlaceKinds, MaxPlaces)

NearbyOutcomes ==
    {[status |-> HTTP_OK, body |-> [status |-> "OK", results |-> l]] : l \in PlacesLists}
    \cup {[status |-> HTTP_OK, body |-> [status |-> "ZERO_RESULTS"]],
          [status |-> HTTP_OK, body |-> EmptyDict],
          [status |-> HTTP_ERROR, body |-> EmptyDict],
          [raise |-> "ConnectionError"], [raise |-> "KeyError"], [raise |-> ""]}

DetailOutcomes ==
    {[status |-> HTTP_OK,
      body |-> [status |-> "OK", result |-> [formatted_address |-> "1 Main Street"]]],
     [status |-> HTTP_OK, body |-> [status |-> "NOT_FOUND"]],
     [status |-> HTTP_ERROR, body |-> EmptyDict],
     [raise |-> "ConnectionError"]}

PlaceTypes == {"restaurant", "hospital", "lodging"}

ServicePlacesLimit == 10

\* The mock lists of the service: ten restaurants, three hospitals, three
\* lodgings, nothing for another type.
MockPlaceCount(place_type) ==
    IF place_type = "restaurant" THEN 10
    ELSE IF place_type \in {"hospital", "lodging"} THEN 3
    ELSE 0

MockPlaces(place_type) ==
    [i \in 1..MockPlaceCount(place_type) |-> [place_id |-> [mock |-> place_type, n |-> i]]]

PlaceInfo(place) ==
    [place_id |-> Get(place, "place_id", PyNone),
     name |-> Get(place, "name", PyNone),
     rating |-> Get(place, "rating", PyNone),
     user_ratings_total |-> Get(place, "user_ratings_total", PyNone)]

(***************************************************************************)
(* ExternalAPIService.get_nearby_places                                    *)
(***************************************************************************)
get_nearby_places_service(latitude, longitude, place_type, key, up) ==
    LET log == <<PlacesRequest(latitude, longitude, place_type, "prominence")>> IN
    IF key = PyNone
    THEN [ok |-> TRUE, data |-> MockPlaces(place_type), error |-> PyNone, log |-> << >>]
    ELSE IF Raises(up)
    THEN [ok |-> FALSE, data |-> PyNone,
          error |-> [text |-> IF up.raise \in RequestExceptions
                              THEN "Google Places API request error"
                              ELSE "Nearby places error",
                     cause |-> up.raise],
          log |-> log]
    ELSE IF up.status # HTTP_OK
    THEN [ok |-> FALSE, data |-> PyNone,
          error |-> [text |-> "Google Places API error", status |-> up.status],
          log |-> log]
    ELSE LET results == Take(Get(up.body, "results", << >>), ServicePlacesLimit) IN
         [ok |-> TRUE, data |-> [i \in DOMAIN results |-> PlaceInfo(results[i])],
          error |-> PyNone, log |-> log]

(***************************************************************************)
(* ExternalAPIService.get_multiple_place_types: one search per listed      *)
(* type, ups[i] being what the API does on the i-th.                       *)
(***************************************************************************)
RECURSIVE MultipleFrom(_, _, _, _, _, _)
MultipleFrom(latitude, longitude, place_types, key, ups, i) ==
    IF i > Len(place_types) THEN [results |-> EmptyDict, log |-> << >>]
    ELSE LET r == get_nearby_places_service(latitude, longitude, place_types[i], key, ups[i])
             rest == MultipleFrom(latitude, longitude, place_types, key, ups, i + 1)
             places == IF r.ok THEN r.data ELSE << >>
         IN  \* a later entry of the same type overwrites an earlier one
             [results |-> [t \in {place_types[i]} \cup DOMAIN rest.results |->
                              IF t \in DOMAIN rest.results THEN rest.results[t] ELSE places],
              log |-> r.log \o rest.log]

get_multiple_place_types(latitude, longitude, place_types, key, ups) ==
    MultipleFrom(latitude, longitude, place_types, key, ups, 1)

(***************************************************************************)
(* get_nearby_places (src/app.py): a search, then one detail request per   *)
(* selected place.                                                         *)
(***************************************************************************)
AppMaxResults == 5

Rated(p) ==
    /\ "rating" \in DOMAIN p
    /\ Get(p, "user_ratings_total", 0) > 0

\* The sort key (user_ratings_total, rating) of a is greater than that of b.
KeyGreater(a, b) ==
    \/ a.user_ratings_total > b.user_ratings_total
    \/ a.user_ratings_total = b.user_ratings_total /\ a.rating > b.rating

\* list.sort(key=..., reverse=True): descending and stable.
RECURSIVE InsertDesc(_, _)
InsertDesc(x, t) ==
    IF t = << >> THEN <<x>>
    ELSE IF KeyGreater(Head(t), x) THEN <<Head(t)>> \o InsertDesc(x, Tail(t))
    ELSE <<x>> \o t

RECURSIVE SortDesc(_)
SortDesc(s) == IF s = << >> THEN << >> ELSE InsertDesc(Head(s), SortDesc(Tail(s)))

EnrichedPlace(place, place_details) ==
    [place_id |-> place.place_id,
     name |-> Get(place, "name", PyNone),
     formatted_address |-> Get(place_details, "formatted_address", PyNone),
     rating |-> Get(place, "rating", PyNone),
     user_ratings_total |-> Get(place, "user_ratings_total", PyNone)]

\* The loop over top_places from index i on; ups[i] is what the detail request
\* for top_places[i] does.
RECURSIVE Enrich(_, _, _)
Enrich(top_places, ups, i) ==
    IF i > Len(top_places) THEN [raised |-> FALSE, places |-> << >>, log |-> << >>]
    ELSE LET place == top_places[i] IN
         IF "place_id" \notin DOMAIN place
         THEN Enrich(top_places, ups, i + 1)
         ELSE LET req == <<DetailsRequest(place.place_id)>> IN
              IF Raises(ups[i])
              THEN [raised |-> TRUE, cause |-> ups[i].raise, places |-> << >>, log |-> req]
              ELSE IF ups[i].status = HTTP_OK /\ "status" \notin DOMAIN ups[i].body
              THEN [raised |-> TRUE, cause |-> "'status'", places |-> << >>, log |-> req]
              ELSE LET rest == Enrich(top_places, ups, i + 1)
                       enriched ==
                           IF ups[i].status = HTTP_OK /\ ups[i].body.status = "OK"
                           THEN EnrichedPlace(place, ups[i].body.result)
                           ELSE place
                   IN  IF rest.raised
                       THEN [rest EXCEPT !.log = req \o rest.log]
                       ELSE [raised |-> FALSE, places |-> <<enriched>> \o rest.places,
                             log |-> req \o rest.log]

get_nearby_places_app(lat, lon, place_type, key, up, detail_ups) ==
    LET log == <<PlacesRequest(lat, lon, place_type, "distance")>> IN
    IF key = PyNone
    THEN [data |-> PyNone, error |-> [text |-> "Google Places API key not configured"],
          log |-> << >>]
    ELSE IF Raises(up)
    THEN [data |-> PyNone, error |-> [text |-> up.raise], log |-> log]
    ELSE IF up.status # HTTP_OK
    THEN [data |-> PyNone,
          error |-> [text |-> "Google Places API error", status |-> up.status],
          log |-> log]
    ELSE IF "status" \notin DOMAIN up.body
    THEN [data |-> PyNone, error |-> [text |-> "'status'"], log |-> log]
    ELSE IF up.body.status # "OK"
    THEN [data |-> PyNone,
          error |-> [text |-> "Nearby search error", status |-> up.body.status],
          log |-> log]
    ELSE LET places == Get(up.body, "results", << >>)
             rated_places == SortDesc(SelectSeq(places, Rated))
             top_places == Take(rated_places, AppMaxResults)
             e == Enrich(top_places, detail_ups, 1)
         IN  IF e.raised
             THEN [data |-> PyNone, error |-> [text |-> e.cause], log |-> log \o e.log]
             ELSE [data |-> e.places, error |-> PyNone, log |-> log \o e.log]

(***************************************************************************)
(* Calls of the video and places functions.                                *)
(***************************************************************************)
MaxTypes == 2

\* What the places API does on the searches of get_multiple_place_types.
MultipleOutcomes ==
    {[status |-> HTTP_OK,
      body |-> [status |-> "OK", results |-> <<[place_id |-> "p3", name |-> "C"]>>]],
     [status |-> HTTP_ERROR, body |-> EmptyDict],
     [raise |-> "ConnectionError"]}

CallGetYoutubeVideos ==
    /\ impl = "refactored"
    /\ fcall = Idle /\ tcall = Idle
    /\ \E max_results \in {1, 5}, key \in ApiKeys, up \in YoutubeOutcomes :
          /\ fcall' = [fn |-> "get_youtube_videos", location |-> "Paris",
                       max_results |-> max_results, key |-> key, up |-> up,
                       result |-> get_youtube_videos_service("Paris", max_results, key, up),
                       response |-> route_response(
                                       get_youtube_videos_service("Paris", max_results,
                                                                  key, up))]
          /\ UNCHANGED <<session, impl, store, next_id, now, resp, tcall>>

CallGetYoutubeVideosApp ==
    /\ impl = "app"
    /\ fcall = Idle /\ tcall = Idle
    /\ \E key \in ApiKeys, up \in YoutubeOutcomes :
          /\ fcall' = [fn |-> "get_youtube_videos", location |-> "Paris",
                       max_results |-> 3, key |-> key, up |-> up,
                       result |-> get_youtube_videos_app("Paris", 3, key, up)]
          /\ UNCHANGED <<session, impl, store, next_id, now, resp, tcall>>

CallGetNearbyPlaces ==
    /\ impl = "refactored"
    /\ fcall = Idle /\ tcall = Idle
    /\ \E place_type \in PlaceTypes \cup {"museum"}, key \in ApiKeys, up \in NearbyOutcomes :
          /\ fcall' = [fn |-> "get_nearby_places", place_type |-> place_type,
                       key |-> key, up |-> up,
                       result |-> get_nearby_places_service(Places.Paris.latitude,
                                     Places.Paris.longitude, place_type, key, up)]
          /\ UNCHANGED <<session, impl, store, next_id, now, resp, tcall>>

CallGetMultiplePlaceTypes ==
    /\ impl = "refactored"
    /\ fcall = Idle /\ tcall = Idle
    /\ \E place_types \in SeqsUpTo(PlaceTypes, MaxTypes), key \in ApiKeys :
       \E ups \in [1..Len(place_types) -> MultipleOutcomes] :
          /\ fcall' = [fn |-> "get_multiple_place_types", place_types |-> place_types,
                       key |-> key, ups |-> ups,
                       result |-> get_multiple_place_types(Places.Paris.latitude,
                                     Places.Paris.longitude, place_types, key, ups)]
          /\ UNCHANGED <<session, impl, store, next_id, now, resp, tcall>>

CallGetNearbyPlacesApp ==
    /\ impl = "app"
    /\ fcall = Idle /\ tcall = Idle
    /\ \E key \in ApiKeys, up \in NearbyOutcomes :
       \E detail_ups \in [1..MaxPlaces -> DetailOutcomes] :
          /\ fcall' = [fn |-> "get_nearby_places", place_type |-> "restaurant",
                       key |-> key, up |-> up, detail_ups |-> detail_ups,
                       result |-> get_nearby_places_app(Places.Paris.latitude,
                                     Places.Paris.longitude, "restaurant", key, up,
                                     detail_ups)]
          /\ UNCHANGED <<session, impl, store, next_id, now, resp, tcall>>

NextExternal ==
    \/ CallGetYoutubeVideos
    \/ CallGetYoutubeVideosApp
    \/ CallGetNearbyPlaces
    \/ CallGetMultiplePlaceTypes
    \/ CallGetNearbyPlacesApp

(***************************************************************************)
(* The specifications of the calls: the upstream-facing functions, and the *)
(* today's-weather functions.                                              *)
(***************************************************************************)
NextFetch ==
    \/ CallFetchWeatherData
    \/ CallGetWeatherData
    \/ CallTodaysWeather
    \/ NextExternal
    \/ ReturnFetch
    \/ ReturnToday

SpecFetch == Init /\ [][NextFetch]_vars

NextToday == CallTodaysWeather \/ CallMostDescriptive \/ ReturnToday

SpecToday == Init /\ [][NextToday]_vars

(***************************************************************************)
(* Export (src/services/export_service.py, src/app_refactored.py and the   *)
(* export routes of src/app.py).                                           *)
(*                                                                         *)
(* Text that a renderer builds with f-strings is a string; a JSON document *)
(* is the sequence of its objects, a CSV document the sequence of its rows *)
(* (each the sequence of its cells), a Markdown document the sequence of   *)
(* its lines, an XML document its element tree and a PDF document the      *)
(* sequence of its flowables.  A renderer returns its document or          *)
(* [raise |-> error].                                                      *)
(***************************************************************************)
MaxRecords == 2

\* Values of the temperature_data column: NULL, the structure stored by
\* src/app_refactored.py (the two upstream bodies as they came), the one
\* stored by src/app.py, and the shapes the renderers test for (an empty
\* dict, no 'current', no 'main', a 'main' without 'temp' or 'humidity').
ExportTemperatures ==
    {PyNone,
     EmptyDict,
     [current |-> CurrentFull, forecast |-> [list |-> <<GoodSlice(S_rain)>>]],
     [current |-> CurrentBare, forecast |-> [cod |-> "200"]],
     [forecast |-> [list |-> << >>]],
     [current |-> [main |-> [humidity |-> 50]], forecast |-> [list |-> << >>]],
     [current |-> [main |-> [temp |-> 215]], forecast |-> [list |-> << >>]],
     AppWeatherData(CurrentBare, [list |-> <<GoodSlice(S_rain)>>], 49, 2,
                    Today, Today + 7, 1)}

\* The i-th row of a table: rows are created one per tick, so a later row
\* has a later created_at.
ExportRow(i, temperature_data) ==
    [id |-> i, location |-> IF i % 2 = 1 THEN "Paris" ELSE "Oslo",
     latitude |-> IF i % 2 = 1 THEN Places.Paris.latitude ELSE Places.Oslo.latitude,
     longitude |-> IF i % 2 = 1 THEN Places.Paris.longitude ELSE Places.Oslo.longitude,
     start_date |-> Today, end_date |-> Today + i,
     temperature_data |-> temperature_data,
     created_at |-> i, updated_at |-> i + 1]

\* The tables an export reads.
ExportStores ==
    {[i \in DOMAIN t |-> ExportRow(i, t[i])] : t \in SeqsUpTo(ExportTemperatures, MaxRecords)}

InitExport ==
    /\ impl \in {"app", "refactored"}
    /\ store \in ExportStores
    /\ next_id = Len(store) + 1
    /\ now = Len(store) + 1
    /\ resp = [op |-> "none"]
    /\ fcall = Idle
    /\ tcall = Idle
    /\ session = NoSessions

\* The ids of a table in ascending order.
RECURSIVE Ascending(_)
Ascending(ids) ==
    IF ids = {}
    THEN << >>
    ELSE LET least == CHOOSE i \in ids : \A j \in ids : i <= j
         IN  <<least>> \o Ascending(ids \ {least})

\* db.query(WeatherRecord).all(): the rows in primary-key order.
query_all(table) ==
    LET ids == Ascending(DOMAIN table)
    IN  [k \in 1..Len(ids) |-> table[ids[k]]]

\* WeatherRecord.query.order_by(WeatherRecord.created_at.desc()).all()
RECURSIVE CreatedDesc(_, _)
CreatedDesc(table, ids) ==
    IF ids = {}
    THEN << >>
    ELSE LET first == CHOOSE i \in ids :
                        \A j \in ids :
                            \/ table[j].created_at < table[i].created_at
                            \/ (table[j].created_at = table[i].created_at /\ i <= j)
         IN  <<table[first]>> \o CreatedDesc(table, ids \ {first})

query_created_desc(table) == CreatedDesc(table, DOMAIN table)

\* str(d) and d.isoformat() of a date, as text inside a longer string.
date_str(d) == "day " \o ToString(isoformat(d).day)

\* t.isoformat() of a datetime
datetime_isoformat(t) == "T" \o ToString(t)

\* t.strftime(fmt) of a datetime
strftime(t, fmt) == ToString(t) \o " as " \o fmt

\* f"{x:.4f}" of a coordinate
fixed4(x) == ToString(x) \o ".0000"

\* if record.temperature_data:
HasWeather(record) ==
    record.temperature_data # PyNone /\ record.temperature_data # EmptyDict

\* f"{main.get(key, 'N/A')}"
GetText(main, key) == IF key \in DOMAIN main THEN ToString(main[key]) ELSE "N/A"

(***************************************************************************)
(* JSON.  json.dumps writes None as null, a number as a number, a str as a *)
(* string and, through default=str, a date as the string of its ISO form;  *)
(* json.loads reads null as None and a string as a str.                    *)
(***************************************************************************)
JsonNull == [null |-> TRUE]

\* json.dumps of the value of a JSON column (a dict of the stored JSON, or
\* None)
dumps_column(v) == IF v = PyNone THEN JsonNull ELSE v

\* record_data of export_to_json, as json.dumps writes it
record_data(record) ==
    [id |-> record.id,
     location |-> record.location,
     start_date |-> isoformat(record.start_date),
     end_date |-> isoformat(record.end_date),
     latitude |-> record.latitude,
     longitude |-> record.longitude,
     created_at |-> datetime_isoformat(record.created_at),
     updated_at |-> datetime_isoformat(record.updated_at),
     temperature_data |-> dumps_column(record.temperature_data)]

\* export_to_json with a loop that stops before the last record.
export_to_json_short(records) ==
    [i \in 1..(Len(records) - 1) |-> record_data(records[i])]

export_to_json(records) == [i \in 1..Len(records) |-> record_data(records[i])]

(***************************************************************************)
(* ExportService.export_to_csv.  csv.writer writes str() of every cell.    *)
(***************************************************************************)
\* 'current' in temperature_data and 'main' in current
HasCurrentMain(record) ==
    /\ HasWeather(record)
    /\ "current" \in DOMAIN record.temperature_data
    /\ "main" \in DOMAIN record.temperature_data.current

\* 'forecast' in temperature_data and 'list' in forecast
HasForecastList(record) ==
    /\ HasWeather(record)
    /\ "forecast" \in DOMAIN record.temperature_data
    /\ "list" \in DOMAIN record.temperature_data.forecast

csv_header ==
    <<"ID", "Location", "Start Date", "End Date", "Latitude", "Longitude",
      "Created At", "Updated At", "Current Temp", "Current Humidity",
      "Forecast Count">>

\* current_temp when the suffix is added to the default as well
current_temp_suffixed(record) ==
    IF HasCurrentMain(record)
    THEN GetText(record.temperature_data.current.main, "temp") \o "°C"
    ELSE "N/A" \o "°C"

current_temp(record) ==
    IF HasCurrentMain(record)
    THEN GetText(record.temperature_data.current.main, "temp") \o "°C"
    ELSE "N/A"

current_humidity(record) ==
    IF HasCurrentMain(record)
    THEN GetText(record.temperature_data.current.main, "humidity") \o "%"
    ELSE "N/A"

forecast_count(record) ==
    IF HasForecastList(record)
    THEN ToString(Len(record.temperature_data.forecast.list))
    ELSE "N/A"

csv_row(record) ==
    <<ToString(record.id), record.location,
      date_str(record.start_date), date_str(record.end_date),
      ToString(record.latitude), ToString(record.longitude),
      datetime_isoformat(record.created_at), datetime_isoformat(record.updated_at),
      current_temp(record), current_humidity(record), forecast_count(record)>>

export_to_csv(records) ==
    <<csv_header>> \o [i \in 1..Len(records) |-> csv_row(records[i])]

(***************************************************************************)
(* ExportService.export_to_xml.  The text of an element is what the code   *)
(* assigned to it: a str ([str |-> s]), a date object ([date |-> d]) or    *)
(* nothing (PyNone).  ET.tostring raises TypeError for a text that is not  *)
(* a str.                                                                  *)
(***************************************************************************)
Text(s) == [str |-> s]

Leaf(tag, text) == [tag |-> tag, text |-> text, children |-> << >>]

Node(tag, children) == [tag |-> tag, text |-> PyNone, children |-> children]

weather_summary(record) ==
    Node("weather_summary",
         (IF HasCurrentMain(record)
          THEN <<Node("current_weather",
                      <<Leaf("temperature",
                             Text(GetText(record.temperature_data.current.main, "temp"))),
                        Leaf("humidity",
                             Text(GetText(record.temperature_data.current.main, "humidity")))>>)>>
          ELSE << >>)
         \o
         (IF HasForecastList(record)
          THEN <<Node("forecast",
                      <<Leaf("total_periods",
                             Text(ToString(Len(record.temperature_data.forecast.list))))>>)>>
          ELSE << >>))

record_elem(record) ==
    Node("record",
         <<Leaf("id", Text(ToString(record.id))),
           Leaf("location", Text(record.location)),
           Leaf("start_date", [date |-> record.start_date]),
           Leaf("end_date", [date |-> record.end_date]),
           Leaf("latitude", Text(ToString(record.latitude))),
           Leaf("longitude", Text(ToString(record.longitude))),
           Leaf("created_at", Text(datetime_isoformat(record.created_at))),
           Leaf("updated_at", Text(datetime_isoformat(record.updated_at)))>>
         \o (IF HasWeather(record) THEN <<weather_summary(record)>> ELSE << >>))

\* The first element of the record whose text ET.tostring cannot write.
Unserializable(elem) ==
    {k \in DOMAIN elem.children : "date" \in DOMAIN elem.children[k].text}

export_to_xml(records, clock) ==
    LET root == [tag |-> "weather_records",
                 attrib |-> [export_date |-> datetime_isoformat(clock),
                             total_records |-> ToString(Len(records))],
                 children |-> [i \in 1..Len(records) |-> record_elem(records[i])]]
        bad == {i \in DOMAIN root.children : Unserializable(root.children[i]) # {}}
    IN  IF bad # {}
        THEN LET i == CHOOSE i \in bad : \A j \in bad : i <= j
                 c == root.children[i]
                 k == CHOOSE k \in Unserializable(c) : \A j \in Unserializable(c) : k <= j
             IN  [raise |-> [text |-> "XML export error", format |-> "XML",
                             cause |-> [text |-> "cannot serialize",
                                        value |-> c.children[k].text.date,
                                        type |-> "date"]]]
        ELSE [value |-> root]

(***************************************************************************)
(* ExportService.export_to_markdown: the list markdown, one line each.     *)
(***************************************************************************)
markdown_head(records, clock) ==
    <<"# Weather Records Report",
      "**Generated on:** " \o strftime(clock, "%Y-%m-%d %H:%M:%S"),
      "**Total Records:** " \o ToString(Len(records)),
      "",
      "## Records Summary",
      "",
      "| ID | Location | Date Range | Coordinates | Created |",
      "|----|----------|------------|-------------|---------|">>

markdown_table_line(record) ==
    "| " \o ToString(record.id) \o " | " \o record.location \o " | "
    \o date_str(record.start_date) \o " to " \o date_str(record.end_date) \o " | "
    \o fixed4(record.latitude) \o ", " \o fixed4(record.longitude) \o " | "
    \o strftime(record.created_at, "%Y-%m-%d") \o " |"

markdown_detail(record) ==
    <<"### Record " \o ToString(record.id) \o " - " \o record.location,
      "",
      "- **Location:** " \o record.location,
      "- **Date Range:** " \o date_str(record.start_date) \o " to "
          \o date_str(record.end_date),
      "- **Coordinates:** " \o fixed4(record.latitude) \o ", " \o fixed4(record.longitude),
      "- **Created:** " \o strftime(record.created_at, "%Y-%m-%d %H:%M:%S"),
      "- **Updated:** " \o strftime(record.updated_at, "%Y-%m-%d %H:%M:%S"),
      "">>
    \o (IF HasWeather(record)
        THEN <<"#### Weather Data", "">>
             \o (IF HasCurrentMain(record)
                 THEN <<"- **Current Temperature:** "
                            \o GetText(record.temperature_data.current.main, "temp") \o "°C",
                        "- **Humidity:** "
                            \o GetText(record.temperature_data.current.main, "humidity") \o "%",
                        "">>
                 ELSE << >>)
             \o (IF HasForecastList(record)
                 THEN <<"- **Forecast Periods:** "
                            \o ToString(Len(record.temperature_data.forecast.list)),
                        "">>
                 ELSE << >>)
        ELSE << >>)
    \o <<"---", "">>

RECURSIVE markdown_details(_)
markdown_details(records) ==
    IF records = << >>
    THEN << >>
    ELSE markdown_detail(Head(records)) \o markdown_details(Tail(records))

export_to_markdown(records, clock) ==
    markdown_head(records, clock)
    \o [i \in 1..Len(records) |-> markdown_table_line(records[i])]
    \o <<"">>
    \o <<"## Detailed Information", "">>
    \o markdown_details(records)

(***************************************************************************)
(* ExportService.export_to_pdf.  The document is the list elements handed  *)
(* to doc.build; the emoji that open the paragraphs are left out of the    *)
(* texts.  A name is bound in a module when the module imports or defines  *)
(* it; evaluating an unbound name raises NameError.                        *)
(***************************************************************************)
\* The names export_service.py binds (its import lines 1 to 13).
ExportServiceNames ==
    {"json", "csv", "ET", "StringIO", "BytesIO", "List", "Dict", "Any", "Tuple",
     "Optional", "Session", "WeatherRecord", "letter", "SimpleDocTemplate", "Table",
     "TableStyle", "Paragraph", "Spacer", "getSampleStyleSheet", "ParagraphStyle",
     "inch", "colors", "datetime"}

NameError(name) == [text |-> "name is not defined", name |-> name]

Paragraph(text, style) == [flowable |-> "Paragraph", text |-> text, style |-> style]

Spacer(height) == [flowable |-> "Spacer", height |-> height]

PageBreak == [flowable |-> "PageBreak"]

pdf_table(records) ==
    [flowable |-> "Table",
     data |-> << <<"ID", "Location", "Date Range", "Coordinates", "Created">> >>
              \o [i \in 1..Len(records) |->
                    <<ToString(records[i].id), records[i].location,
                      date_str(records[i].start_date) \o " to "
                          \o date_str(records[i].end_date),
                      fixed4(records[i].latitude) \o ", " \o fixed4(records[i].longitude),
                      strftime(records[i].created_at, "%Y-%m-%d")>>]]

basic_info(record) ==
    <<"Location: " \o record.location,
      "Date Range: " \o date_str(record.start_date) \o " to " \o date_str(record.end_date),
      "Coordinates: " \o fixed4(record.latitude) \o ", " \o fixed4(record.longitude),
      "Created: " \o strftime(record.created_at, "%Y-%m-%d %H:%M")>>

\* forecast_list[:5]
SampleItems(record) ==
    IF HasForecastList(record)
    THEN LET l == record.temperature_data.forecast.list
         IN  SubSeq(l, 1, IF Len(l) < 5 THEN Len(l) ELSE 5)
    ELSE << >>

\* forecast_item.get('weather', [{}])[0] raises IndexError for an empty list
SampleRaises(record) ==
    \E j \in DOMAIN SampleItems(record) :
        Get(SampleItems(record)[j], "weather", <<EmptyDict>>) = << >>

sample_line(j, forecast_item) ==
    [j |-> j,
     dt_txt |-> Get(forecast_item, "dt_txt", "N/A"),
     temp |-> GetText(Get(forecast_item, "main", EmptyDict), "temp") \o "°C",
     desc |-> Get(Get(forecast_item, "weather", <<EmptyDict>>)[1], "description", "N/A")]

\* The pieces of weather_info, one per <br/>.
weather_info(record) ==
    LET td == record.temperature_data
        current == td.current
    IN  <<"Weather Data:">>
        \o (IF HasCurrentMain(record)
            THEN <<"Current Temperature: " \o GetText(current.main, "temp") \o "°C",
                   "Humidity: " \o GetText(current.main, "humidity") \o "%",
                   "Pressure: " \o GetText(current.main, "pressure") \o " hPa",
                   "Feels Like: " \o GetText(current.main, "feels_like") \o "°C">>
            ELSE << >>)
        \o (IF "current" \in DOMAIN td /\ "weather" \in DOMAIN current
                /\ current.weather # << >>
            THEN <<[label |-> "Weather",
                    value |-> Get(current.weather[1], "description", "N/A")]>>
            ELSE << >>)
        \o (IF "current" \in DOMAIN td /\ "wind" \in DOMAIN current
            THEN <<"Wind Speed: " \o GetText(current.wind, "speed") \o " m/s",
                   "Wind Direction: " \o GetText(current.wind, "deg") \o "°">>
            ELSE << >>)
        \o (IF HasForecastList(record)
            THEN <<"Forecast Periods: " \o ToString(Len(td.forecast.list))>>
                 \o (IF td.forecast.list # << >>
                     THEN <<"Sample Forecast Data:">>
                          \o [j \in DOMAIN SampleItems(record) |->
                                 sample_line(j, SampleItems(record)[j])]
                     ELSE << >>)
            ELSE << >>)

\* The elements one pass of the detail loop appends, before the page break.
detail_block(i, record) ==
    <<Paragraph("Record " \o ToString(i) \o ": " \o record.location, "Heading2"),
      Spacer(10),
      Paragraph(basic_info(record), "Normal"),
      Spacer(15),
      IF HasWeather(record)
      THEN Paragraph(weather_info(record), "Normal")
      ELSE Paragraph("No weather data available", "Normal"),
      Spacer(20)>>

\* The detail loop from its i-th pass on: [value |-> elements] or
\* [raise |-> exception].
RECURSIVE pdf_details(_, _, _)
pdf_details(records, i, names) ==
    IF i > Len(records)
    THEN [value |-> << >>]
    ELSE IF HasWeather(records[i]) /\ SampleRaises(records[i])
    THEN [raise |-> [text |-> "list index out of range"]]
    ELSE IF i < Len(records) /\ "PageBreak" \notin names
    THEN [raise |-> NameError("PageBreak")]
    ELSE LET rest == pdf_details(records, i + 1, names)
         IN  IF Raises(rest)
             THEN rest
             ELSE [value |-> detail_block(i, records[i])
                             \o (IF i < Len(records) THEN <<PageBreak>> ELSE << >>)
                             \o rest.value]

export_to_pdf(records, clock) ==
    LET details == pdf_details(records, 1, ExportServiceNames)
    IN  IF Raises(details)
        THEN [raise |-> [text |-> "PDF export error", format |-> "PDF",
                         cause |-> details.raise]]
        ELSE [value |->
                <<Paragraph("Weather Records Report", "CustomTitle"),
                  Paragraph(<<"Generated on: " \o strftime(clock, "%Y-%m-%d %H:%M:%S"),
                              "Total Records: " \o ToString(Len(records)),
                              "Weather data from OpenWeather API">>, "Summary"),
                  Spacer(30),
                  pdf_table(records),
                  Spacer(30)>>
                \o details.value
                \o <<Spacer(20),
                     Paragraph("Generated by Weather App - Powered by OpenWeather API",
                               "Footer")>>]

(***************************************************************************)
(* ExportService.export_records and GET /api/export/<format_type> of       *)
(* src/app_refactored.py.                                                  *)
(***************************************************************************)
Formats == {"json", "csv", "xml", "pdf", "markdown"}

\* What a client can put in the place of <format_type>.
FormatSelectors == Formats \cup {"yaml", "JSON"}

ExportFailed(e) == [ok |-> FALSE, data |-> PyNone, error |-> [text |-> "Export error", cause |-> e]]

Exported(data) == [ok |-> TRUE, data |-> data, error |-> PyNone]

\* f"Unsupported export format: {format_type}" without the value
UnsupportedFormatUnnamed(format_type) == [text |-> "Unsupported export format"]

\* f"Unsupported export format: {format_type}"
UnsupportedFormat(format_type) ==
    [text |-> "Unsupported export format", format_type |-> format_type]

export_records(db, format_type, clock) ==
    LET records == query_all(db) IN
    IF format_type = "json" THEN Exported(export_to_json(records))
    ELSE IF format_type = "csv" THEN Exported(export_to_csv(records))
    ELSE IF format_type = "xml"
    THEN LET data == export_to_xml(records, clock)
         IN  IF Raises(data) THEN ExportFailed(data.raise) ELSE Exported(data.value)
    ELSE IF format_type = "pdf"
    THEN LET data == export_to_pdf(records, clock)
         IN  IF Raises(data) THEN ExportFailed(data.raise) ELSE Exported(data.value)
    ELSE IF format_type = "markdown" THEN Exported(export_to_markdown(records, clock))
    ELSE [ok |-> FALSE, data |-> PyNone, error |-> UnsupportedFormat(format_type)]

_get_mime_type(format_type) ==
    CASE format_type = "json" -> "application/json"
      [] format_type = "csv" -> "text/csv"
      [] format_type = "xml" -> "application/xml"
      [] format_type = "markdown" -> "text/markdown"
      [] OTHER -> "text/plain"

\* send_file(buffer, mimetype=..., as_attachment=True, download_name=...)
send_file(data, mimetype, download_name) ==
    [body |-> data, mimetype |-> mimetype, download_name |-> download_name]

\* The response of an export request; records is the list the renderer got.
ExportResponse(format, status, error, file, records) ==
    [op |-> "export", format |-> format, status |-> status, error |-> error,
     file |-> file, records |-> records]

\* if not is_valid: return jsonify({'error': error}), 400
ExportErrorStatus == 400

export_data ==
    /\ impl = "refactored"
    /\ fcall = Idle /\ tcall = Idle
    /\ \E format_type \in FormatSelectors :
          LET r == export_records(store, format_type, now)
          IN  resp' =
                IF ~r.ok
                THEN ExportResponse(format_type, ExportErrorStatus, r.error, PyNone,
                                    query_all(store))
                ELSE IF format_type = "pdf"
                THEN ExportResponse(format_type, 200, PyNone,
                         send_file(r.data, "application/pdf",
                                   "weather_records_" \o strftime(now, "%Y%m%d_%H%M%S")
                                       \o ".pdf"),
                         query_all(store))
                ELSE ExportResponse(format_type, 200, PyNone,
                         send_file(r.data, _get_mime_type(format_type),
                                   "weather_records_" \o strftime(now, "%Y%m%d_%H%M%S")
                                       \o "." \o format_type),
                         query_all(store))
    /\ UNCHANGED <<session, impl, store, next_id, now, fcall, tcall>>

(***************************************************************************)
(* The export routes of src/app.py.  Each renders inside the handler; the  *)
(* module binds neither io nor minidom.                                    *)
(***************************************************************************)
\* The names src/app.py binds with its import lines 1 to 15.
AppNames ==
    {"Flask", "request", "jsonify", "send_file", "SQLAlchemy", "CORS", "datetime",
     "timedelta", "requests", "json", "csv", "ET", "letter", "SimpleDocTemplate",
     "Table", "TableStyle", "Paragraph", "getSampleStyleSheet", "os", "load_dotenv",
     "Nominatim", "GeocoderTimedOut", "GeocoderUnavailable"}

\* except Exception as e: return jsonify({'error': str(e)}), 500
AppExportError(format, e, records) ==
    ExportResponse(format, 500, e, PyNone, records)

\* The steps of a handler that evaluate a name: the first unbound one raises.
FirstUnbound(used) == CHOOSE k \in DOMAIN used :
                         /\ used[k] \notin AppNames
                         /\ \A j \in 1..(k-1) : used[j] \in AppNames

AllBound(used) == \A k \in DOMAIN used : used[k] \in AppNames

\* The response of one export route of src/app.py, from the records it
\* queried, the names the handler evaluates after the query, and the file it
\* sends.
AppExport(format, used, file, records) ==
    IF ~AllBound(used)
    THEN AppExportError(format, NameError(used[FirstUnbound(used)]), records)
    ELSE ExportResponse(format, 200, PyNone, file, records)

app_json_object(record) ==
    [id |-> record.id,
     location |-> record.location,
     latitude |-> record.latitude,
     longitude |-> record.longitude,
     start_date |-> isoformat(record.start_date),
     end_date |-> isoformat(record.end_date),
     temperature_data |-> dumps_column(record.temperature_data),
     created_at |-> datetime_isoformat(record.created_at),
     updated_at |-> datetime_isoformat(record.updated_at)]

app_json_file(records) ==
    [body |-> [i \in 1..Len(records) |-> app_json_object(records[i])],
     mimetype |-> "application/json"]

export_json ==
    /\ impl = "app"
    /\ fcall = Idle /\ tcall = Idle
    /\ resp' = AppExport("json",
                        <<"jsonify">>,
                        app_json_file(query_created_desc(store)), query_created_desc(store))
    /\ UNCHANGED <<session, impl, store, next_id, now, fcall, tcall>>

app_csv_file(records) ==
    send_file(<< <<"ID", "Location", "Latitude", "Longitude", "Start Date", "End Date",
                   "Created At", "Updated At">> >>
              \o [i \in 1..Len(records) |->
                    <<ToString(records[i].id), records[i].location,
                      ToString(records[i].latitude), ToString(records[i].longitude),
                      date_str(records[i].start_date), date_str(records[i].end_date),
                      datetime_isoformat(records[i].created_at),
                      datetime_isoformat(records[i].updated_at)>>],
              "text/csv", "weather_records.csv")

export_csv ==
    /\ impl = "app"
    /\ fcall = Idle /\ tcall = Idle
    /\ resp' = AppExport("csv",
                        <<"io", "csv", "send_file">>,
                        app_csv_file(query_created_desc(store)), query_created_desc(store))
    /\ UNCHANGED <<session, impl, store, next_id, now, fcall, tcall>>

app_xml_file(records) ==
    send_file([tag |-> "weather_records", attrib |-> EmptyDict,
               children |->
                 [i \in 1..Len(records) |->
                    Node("record",
                         <<Leaf("id", Text(ToString(records[i].id))),
                           Leaf("location", Text(records[i].location)),
                           Leaf("latitude", Text(ToString(records[i].latitude))),
                           Leaf("longitude", Text(ToString(records[i].longitude))),
                           Leaf("start_date", Text(date_str(records[i].start_date))),
                           Leaf("end_date", Text(date_str(records[i].end_date))),
                           Leaf("created_at",
                                Text(datetime_isoformat(records[i].created_at))),
                           Leaf("updated_at",
                                Text(datetime_isoformat(records[i].updated_at)))>>)]],
              "application/xml", "weather_records.xml")

export_xml ==
    /\ impl = "app"
    /\ fcall = Idle /\ tcall = Idle
    /\ resp' = AppExport("xml",
                        <<"ET", "minidom", "send_file", "io">>,
                        app_xml_file(query_created_desc(store)), query_created_desc(store))
    /\ UNCHANGED <<session, impl, store, next_id, now, fcall, tcall>>

app_pdf_file(records) ==
    send_file(<<Paragraph("Weather Records Report", "Title"),
                Paragraph("<br/>", "Normal"),
                [flowable |-> "Table",
                 data |-> << <<"ID", "Location", "Start Date", "End Date", "Created At">> >>
                          \o [i \in 1..Len(records) |->
                                <<ToString(records[i].id), records[i].location,
                                  date_str(records[i].start_date),
                                  date_str(records[i].end_date),
                                  strftime(records[i].created_at, "%Y-%m-%d %H:%M")>>]]>>,
              "application/pdf", "weather_records.pdf")

export_pdf ==
    /\ impl = "app"
    /\ fcall = Idle /\ tcall = Idle
    /\ resp' = AppExport("pdf",
                        <<"io", "SimpleDocTemplate", "getSampleStyleSheet", "Paragraph",
                          "Table", "TableStyle", "send_file">>,
                        app_pdf_file(query_created_desc(store)), query_created_desc(store))
    /\ UNCHANGED <<session, impl, store, next_id, now, fcall, tcall>>

app_markdown_file(records) ==
    send_file(<<"# Weather Records Report", "",
                "Generated on: " \o strftime(now, "%Y-%m-%d %H:%M:%S"), "",
                "| ID | Location | Start Date | End Date | Created At |",
                "|----|----------|------------|----------|------------|">>
              \o [i \in 1..Len(records) |->
                    "| " \o ToString(records[i].id) \o " | " \o records[i].location
                    \o " | " \o date_str(records[i].start_date)
                    \o " | " \o date_str(records[i].end_date)
                    \o " | " \o strftime(records[i].created_at, "%Y-%m-%d %H:%M") \o " |"],
              "text/markdown", "weather_records.md")

export_markdown ==
    /\ impl = "app"
    /\ fcall = Idle /\ tcall = Idle
    /\ resp' = AppExport("markdown",
                        <<"datetime", "send_file", "io">>,
                        app_markdown_file(query_created_desc(store)), query_created_desc(store))
    /\ UNCHANGED <<session, impl, store, next_id, now, fcall, tcall>>

NextExport ==
    \/ export_data
    \/ export_json
    \/ export_csv
    \/ export_xml
    \/ export_pdf
    \/ export_markdown

SpecExport == InitExport /\ [][NextExport]_vars

(***************************************************************************)
(* The cleanup request on tables of up to MaxRecords records of any age.   *)
(***************************************************************************)
\* Days on which the stored records were created: long ago, yesterday, today.
CreatedAts == {-DefaultDaysOld - 1, -1, 0}

CleanupStores ==
    {[i \in DOMAIN c |-> StoredRow("refactored", i, IF i % 2 = 1 THEN "Paris" ELSE "Oslo", c[i])] :
        c \in SeqsUpTo(CreatedAts, MaxRecords)}

InitCleanup ==
    /\ impl = "refactored"
    /\ store \in CleanupStores
    /\ next_id = Len(store) + 1
    /\ now = 0
    /\ resp = [op |-> "none"]
    /\ fcall = Idle
    /\ tcall = Idle
    /\ session = NoSessions

NextCleanup == cleanup_old_records

SpecCleanup == InitCleanup /\ [][NextCleanup]_vars

(***************************************************************************)
(* Two PUT requests in progress at once (gunicorn runs several workers and *)
(* threads).  Each request has its own db.session; a request reads the     *)
(* table when it loads the row and writes it when it commits, and all it   *)
(* does in between is local to it.                                         *)
(***************************************************************************)
Requests == {"a", "b"}

InitRace ==
    /\ impl \in {"app", "refactored"}
    /\ store = <<StoredRow(impl, 1, "Paris", -1)>>
    /\ next_id = 2
    /\ now = 0
    /\ resp = [op |-> "none"]
    /\ fcall = Idle
    /\ tcall = Idle
    /\ session = [p \in Requests |-> [pc |-> "start"]]

\* WeatherRecord.query.get(record_id) / get_weather_record_by_id, of a record
\* that exists.
load_record(p) ==
    /\ session[p].pc = "start"
    /\ \E record_id \in DOMAIN store :
          session' = [session EXCEPT ![p] = [pc |-> "loaded", record_id |-> record_id,
                                            loaded |-> store[record_id]]]
    /\ UNCHANGED <<impl, store, next_id, now, resp, fcall, tcall>>

Finished(p) ==
    [pc |-> "done", record_id |-> session[p].record_id, loaded |-> session[p].loaded,
     response |-> resp', at |-> now]

\* The rest of update_weather_record of src/app.py.
finish_update_app(p) ==
    /\ impl = "app"
    /\ session[p].pc = "loaded"
    /\ now < MaxOps
    /\ now' = now + 1
    /\ UNCHANGED <<impl, fcall, tcall>>
    /\ update_loaded_record_app(session[p].record_id, session[p].loaded)
    /\ session' = [session EXCEPT ![p] = Finished(p)]

\* The rest of WeatherService.update_weather_record; the body has passed the
\* checks of the route before the row was loaded.
finish_update_refactored(p) ==
    /\ impl = "refactored"
    /\ session[p].pc = "loaded"
    /\ now < MaxOps
    /\ now' = now + 1
    /\ UNCHANGED <<impl, fcall, tcall>>
    /\ \E data \in {b \in UpdateBodies : b # EmptyDict /\ ~MissingFields(b)} :
          update_loaded_record_refactored(session[p].record_id, session[p].loaded, data)
    /\ session' = [session EXCEPT ![p] = Finished(p)]

NextRace ==
    \E p \in Requests :
        \/ load_record(p)
        \/ finish_update_app(p)
        \/ finish_update_refactored(p)

SpecRace == InitRace /\ [][NextRace]_vars

(***************************************************************************)
(* Properties of the CRUD requests (specification Spec).                   *)
(* resp.failed names the first step of the request's chain that did not    *)
(* succeed ("none" when all did); the weather fetch did not succeed when   *)
(* it ended in an error status or in an exception.                         *)
(***************************************************************************)
\* The step from this state to the next is a request of kind op.
Handled(op) == now' = now + 1 /\ resp'.op = op

\* C1: create is all-or-nothing.  A create request in which input
\* validation, date-range validation, geocoding, the weather fetch or the
\* commit failed leaves the store as it was; one in which all succeeded adds
\* exactly one record and changes no existing record.
C1_CreateAllOrNothing ==
    [][Handled("create") =>
          IF resp'.failed # "none"
          THEN store' = store
          ELSE /\ resp'.id \notin DOMAIN store
               /\ DOMAIN store' = DOMAIN store \cup {resp'.id}
               /\ \A i \in DOMAIN store : store'[i] = store[i]]_vars

\* C2: update is all-or-nothing.  An update request on an existing record in
\* which geocoding, date-range validation, the weather fetch or the commit
\* failed leaves every field of the persisted record as it was.
C2_UpdateAllOrNothing ==
    [][(Handled("update") /\ resp'.id \in DOMAIN store /\ resp'.failed # "none")
          => /\ resp'.id \in DOMAIN store'
             /\ store'[resp'.id] = store[resp'.id]]_vars

\* C3: after any sequence of create, update and delete requests every
\* persisted record has start_date <= end_date.
C3_StartNotAfterEnd ==
    \A i \in DOMAIN store : store[i].start_date <= store[i].end_date

\* A record that was created and later updated is in the store, and the last
\* update request was refused for its dates or committed.
C3_Witness ==
    /\ resp.op = "update"
    /\ resp.id \in DOMAIN store
    /\ resp.committed
    /\ store[resp.id].updated_at > store[resp.id].created_at
    /\ store[resp.id].start_date <= store[resp.id].end_date

\* C4 as stated: every persisted record spans at most 7 days.
C4_SpanAtMostSeven ==
    \A i \in DOMAIN store : store[i].end_date - store[i].start_date <= 7

\* C4, corrected: a range accepted through WeatherService.validate_date_range
\* spans at most 7 days; a range accepted through validate_date_range of
\* src/app.py starts no earlier than 365 days before today and ends no later
\* than 7 days after today, so it spans at most 372 days.
C4_SpanByValidator ==
    \A i \in DOMAIN store :
        IF impl = "refactored"
        THEN store[i].end_date - store[i].start_date <= 7
        ELSE /\ store[i].start_date >= Today - 365
             /\ store[i].end_date <= Today + 7
             /\ store[i].end_date - store[i].start_date <= 372

\* src/app.py has accepted and stored a range of more than 7 days.
C4_Witness ==
    /\ impl = "app"
    /\ resp.op \in {"create", "update"}
    /\ resp.committed
    /\ store[resp.id].end_date - store[resp.id].start_date > 7

(***************************************************************************)
(* Properties of the upstream-facing functions (specification SpecFetch).  *)
(***************************************************************************)
\* The requests the operation in progress has sent, in order.
OpLog ==
    IF fcall # Idle THEN fcall.result.log
    ELSE IF tcall.fn = "get_todays_weather_3hour" THEN tcall.result.log
    ELSE << >>

\* What the weather API did for the operation in progress.
OpUp == IF fcall # Idle THEN fcall.up ELSE tcall.up

Count(log, api) == Len(SelectSeq(log, LAMBDA r : r.api = api))

IsFetch == fcall.fn \in {"fetch_weather_data", "get_weather_data"}

\* The forecast part of C5: at most two forecast requests; a second one only
\* after a first that succeeded with fewer than 40 slices, and it carries
\* cnt = 40 (the first carries no cnt).
ForecastRetryOneShot ==
    LET fr == SelectSeq(OpLog, LAMBDA r : r.api = "forecast") IN
    /\ Len(fr) <= 2
    /\ Len(fr) >= 1 => "cnt" \notin DOMAIN fr[1]
    /\ Len(fr) = 2 =>
          /\ ~Raises(OpUp.fc1)
          /\ OpUp.fc1.status = 200
          /\ Len(Get(OpUp.fc1.body, "list", << >>)) < 40
          /\ "cnt" \in DOMAIN fr[2]
          /\ fr[2].cnt = 40

\* C5 as stated: the forecast retry is one-shot, and no other upstream
\* request is sent twice within one operation.
C5_NoOtherRequestRepeated ==
    /\ ForecastRetryOneShot
    /\ \A i, j \in DOMAIN OpLog :
          (i # j /\ OpLog[i].api # "forecast") => OpLog[i] # OpLog[j]

\* C5, corrected: the forecast retry is one-shot; the current-conditions,
\* geocoder and video endpoints are requested at most once per operation; a
\* single places search makes one search request; get_multiple_place_types
\* makes one search request per listed type, so a type listed twice is
\* searched twice; get_nearby_places of src/app.py adds at most one detail
\* request per place of the search result.
C5_RetryOneShot ==
    /\ ForecastRetryOneShot
    /\ Count(OpLog, "weather") <= 1
    /\ Count(OpLog, "geocode") <= 1
    /\ Count(OpLog, "youtube") <= 1
    /\ fcall.fn = "get_multiple_place_types" =>
          /\ Count(OpLog, "places") =
                IF fcall.key = PyNone THEN 0 ELSE Len(fcall.place_types)
          /\ \A i \in DOMAIN OpLog : OpLog[i].type = fcall.place_types[i]
    /\ fcall.fn = "get_nearby_places" =>
          /\ Count(OpLog, "places") <= 1
          /\ Count(OpLog, "details") <=
                IF Raises(fcall.up) THEN 0
                ELSE Len(Get(fcall.up.body, "results", << >>))

\* A fetch has sent the second forecast request.
C5_Witness ==
    /\ fcall.fn = "fetch_weather_data"
    /\ Count(OpLog, "forecast") = 2
    /\ fcall.result.ok

\* C6: when the current-conditions request returns a non-success status the
\* fetch fails with no weather data and with an error that names the
\* current-weather call and carries the status, and the forecast endpoint has
\* not been requested.
C6_CurrentFailureIsHard ==
    (IsFetch /\ ~Raises(fcall.up.cur) /\ fcall.up.cur.status # 200) =>
        /\ fcall.result.data = PyNone
        /\ fcall.fn = "fetch_weather_data" => ~fcall.result.ok
        /\ fcall.result.error # PyNone
        /\ fcall.result.error.text = "OpenWeather API current weather error"
        /\ "status" \in DOMAIN fcall.result.error
        /\ fcall.result.error.status = fcall.up.cur.status
        /\ Count(OpLog, "forecast") = 0

\* A fetch whose current-conditions request returned a non-success status.
C6_Witness ==
    /\ IsFetch
    /\ ~Raises(fcall.up.cur)
    /\ fcall.up.cur.status = 500
    /\ Len(OpLog) = 1

\* The fetch in progress has succeeded.
FetchSucceeded ==
    /\ IsFetch
    /\ IF fcall.fn = "fetch_weather_data"
       THEN fcall.result.ok
       ELSE fcall.result.error = PyNone

\* The upstream forecast response the fetch used: the second one when the
\* forecast was requested twice.
UsedForecast ==
    IF Count(OpLog, "forecast") = 2 THEN fcall.up.fc2 ELSE fcall.up.fc1

\* C7: the forecast list of a successful fetch has as many slices as the
\* upstream forecast response that was used, whatever the slices' timestamps.
C7_ForecastLengthMatchesUpstream ==
    FetchSucceeded =>
        Len(Get(fcall.result.data.forecast, "list", << >>))
            = Len(Get(UsedForecast.body, "list", << >>))

\* The requested date as the metadata would carry it: src/app.py receives
\* date objects and attaches their ISO strings, the service receives strings.
RequestedIso(date) == IF fcall.fn = "get_weather_data" THEN isoformat(date) ELSE date

\* C8: the result of a successful fetch contains the current conditions, the
\* forecast, and the requested start and end dates as metadata.
C8_MergedWithDateRange ==
    FetchSucceeded =>
        /\ {"current", "forecast", "date_range"} \subseteq DOMAIN fcall.result.data
        /\ fcall.result.data.date_range.start = RequestedIso(fcall.start_date)
        /\ fcall.result.data.date_range.end = RequestedIso(fcall.end_date)

(***************************************************************************)
(* Properties of the today's-weather functions (specification SpecToday).  *)
(***************************************************************************)
\* The geocoder found the place and the weather API answered every request
\* with success, the forecast with an empty slice list.
EmptyForecastServed ==
    /\ tcall.fn = "get_todays_weather_3hour"
    /\ ~Raises(tcall.geo) /\ tcall.geo.found # PyNone
    /\ ~Raises(tcall.up.cur) /\ tcall.up.cur.status = 200
    /\ ~Raises(tcall.up.fc1) /\ tcall.up.fc1.status = 200
    /\ tcall.up.fc1.body = [list |-> << >>]
    /\ tcall.up.fc2 = tcall.up.fc1

\* C9: given an empty slice list the label is exactly "Mixed Conditions" and
\* total_periods is 0, and nothing is raised (the operation succeeds).
C9_EmptyIsMixedConditions ==
    /\ (tcall.fn = "get_most_descriptive_weather" /\ tcall.hourly_data = << >>)
          => tcall.result = <<"M","i","x","e","d"," ","C","o","n","d","i","t","i","o","n","s">>
    /\ EmptyForecastServed =>
          /\ tcall.result.ok
          /\ tcall.result.data.most_common_weather
                = <<"M","i","x","e","d"," ","C","o","n","d","i","t","i","o","n","s">>
          /\ tcall.result.data.total_periods = 0
          /\ tcall.result.data.hourly_forecast = << >>

\* Today's weather was computed from an empty slice list.
C9_Witness ==
    /\ EmptyForecastServed
    /\ tcall.result.ok
    /\ tcall.result.data.total_periods = 0

\* How often the lower-cased description d occurs in the list.
Occurrences(d, data) ==
    Cardinality({i \in DOMAIN data : lower(data[i].description) = d})

\* Where d occurs first.
FirstSeen(d, data) ==
    CHOOSE i \in DOMAIN data :
        /\ lower(data[i].description) = d
        /\ \A j \in 1..(i-1) : lower(data[j].description) # d

LowerDescriptions(data) == {lower(data[i].description) : i \in DOMAIN data}

UniqueMaximum(data) ==
    \E d \in LowerDescriptions(data) :
        \A e \in LowerDescriptions(data) \ {d} : Occurrences(e, data) < Occurrences(d, data)

Permuted(data) ==
    {[i \in DOMAIN data |-> data[p[i]]] : p \in Permutations(DOMAIN data)}

KeyOrder ==
    << <<"c","l","o","u","d","s">>, <<"c","l","e","a","r">>, <<"r","a","i","n">>,
       <<"s","n","o","w">>, <<"t","h","u","n","d","e","r","s","t","o","r","m">>,
       <<"d","r","i","z","z","l","e">>, <<"m","i","s","t">>, <<"f","o","g">>,
       <<"h","a","z","e">> >>

\* The label the mapping gives to a key.
LabelOf(key) ==
    weather_mapping[CHOOSE k \in 1..Len(weather_mapping) : weather_mapping[k][1] = key][2]

\* The modal description of the call holds both 'rain' and 'thunderstorm'.
RainAndThunderstorm ==
    /\ tcall.fn = "get_most_descriptive_weather"
    /\ tcall.hourly_data # << >>
    /\ Contains(<<"r","a","i","n">>, tcall.most_frequent.key)
    /\ Contains(<<"t","h","u","n","d","e","r","s","t","o","r","m">>, tcall.most_frequent.key)

\* C11: the modal description is relabelled by testing the keys clouds, clear,
\* rain, snow, thunderstorm, drizzle, mist, fog, haze as substrings in that
\* order; the label of the first key that matches is returned (a description
\* with both 'rain' and 'thunderstorm' gets the label of 'rain'), and when no
\* key matches the result is the title-cased modal description.
C11_FirstKeyWins ==
    (tcall.fn = "get_most_descriptive_weather" /\ tcall.hourly_data # << >>) =>
        LET desc == tcall.most_frequent.key
        IN  /\ \A k \in 1..Len(KeyOrder) :
                  (/\ Contains(KeyOrder[k], desc)
                   /\ \A j \in 1..(k-1) : ~Contains(KeyOrder[j], desc))
                      => tcall.result = LabelOf(KeyOrder[k])
            /\ (\A k \in 1..Len(KeyOrder) : ~Contains(KeyOrder[k], desc))
                  => tcall.result = title(desc)
            /\ RainAndThunderstorm
                  => tcall.result = <<"L","i","g","h","t"," ","R","a","i","n">>
            /\ desc = <<"v","o","l","c","a","n","i","c"," ","a","s","h">>
                  => tcall.result = <<"V","o","l","c","a","n","i","c"," ","A","s","h">>

\* A list whose modal description holds two keys was labelled.
C11_Witness ==
    /\ RainAndThunderstorm
    /\ tcall.result = <<"L","i","g","h","t"," ","R","a","i","n">>

(***************************************************************************)
(* Properties of the export requests (specification SpecExport).           *)
(* resp.records is the record list the renderer was given, resp.file the   *)
(* file that was sent (PyNone when none was).                              *)
(***************************************************************************)
\* The last request was an export in the given format.
ExportOf(format) == resp.op = "export" /\ resp.format = format

\* The last request was an export through ExportService that sent a file.
ServiceExported(format) ==
    impl = "refactored" /\ ExportOf(format) /\ resp.status = 200

\* The last request named a format selector outside the five formats.
UnsupportedSelector ==
    /\ resp.op = "export"
    /\ resp.format \notin {"json", "csv", "xml", "pdf", "markdown"}

\* C12: an export request whose format selector is not one of json, csv, xml,
\* pdf, markdown gets a client-class failure (4xx) whose message names the
\* unsupported value, no file is produced, and the request leaves the record
\* store unchanged.
C12_UnsupportedFormat ==
    /\ [](UnsupportedSelector =>
            /\ resp.status \in 400..499
            /\ "format_type" \in DOMAIN resp.error
            /\ resp.error.format_type = resp.format
            /\ resp.file = PyNone)
    /\ [][(resp'.op = "export"
             /\ resp'.format \notin {"json", "csv", "xml", "pdf", "markdown"})
            => store' = store]_vars

\* The format "yaml" was requested from a table that holds records.
C12_Witness ==
    /\ ExportOf("yaml")
    /\ resp.status = 400
    /\ Len(resp.records) >= 1
    /\ store = [i \in DOMAIN resp.records |-> resp.records[i]]

\* A renderer of a recognized format failed: the records were read, the
\* format is one of the five, and no file was sent.
RendererFailed ==
    /\ resp.op = "export"
    /\ resp.format \in {"json", "csv", "xml", "pdf", "markdown"}
    /\ resp.file = PyNone

\* C13: when the renderer of a recognized format fails internally, the export
\* request is reported as a server-error-class failure (5xx) whose message
\* carries the underlying cause and the format name.
C13_RendererFailureIsServerError ==
    RendererFailed =>
        /\ resp.status \in 500..599
        /\ "cause" \in DOMAIN resp.error
        /\ "format" \in DOMAIN resp.error.cause
        /\ "cause" \in DOMAIN resp.error.cause

\* The heading line of a record's subsection.
RecordHeading(record) ==
    "### Record " \o ToString(record.id) \o " - " \o record.location

\* The places of the horizontal rules of a document.
RuleLines(document) == {k \in DOMAIN document : document[k] = "---"}

\* The places of the heading lines of the record subsections.
HeadingLines(document) ==
    {k \in DOMAIN document :
        \E i \in DOMAIN resp.records : document[k] = RecordHeading(resp.records[i])}

\* C14: the Markdown export of N >= 1 records has exactly N '### Record'
\* subsections and exactly N-1 horizontal-rule lines ('---'), each rule
\* between two consecutive record subsections and none after the last one.
C14_MarkdownRulesBetweenRecords ==
    (ServiceExported("markdown") /\ Len(resp.records) >= 1) =>
        LET document == resp.file.body
            headings == HeadingLines(document)
            rules == RuleLines(document)
            n == Len(resp.records)
        IN  /\ Cardinality(headings) = n
            /\ Cardinality(rules) = n - 1
            /\ \A k \in rules :
                 /\ \E h \in headings : h < k
                 /\ \E h \in headings : k < h

\* The places of the flowables of one kind in a PDF document.
Flowables(document, kind) == {k \in DOMAIN document : document[k].flowable = kind}

\* The places where the detail blocks start: the Heading2 paragraphs.
BlockStarts(document) ==
    {k \in Flowables(document, "Paragraph") : document[k].style = "Heading2"}

\* C15: the PDF export succeeds for a record list of any length N >= 0 and
\* emits one detail block per record, in order, with a page break between
\* every two consecutive detail blocks (N-1 page breaks for N >= 1) and none
\* after the last block.
C15_PdfBlocksAndPageBreaks ==
    (impl = "refactored" /\ ExportOf("pdf")) =>
        /\ resp.status = 200
        /\ LET document == resp.file.body
               blocks == BlockStarts(document)
               breaks == Flowables(document, "PageBreak")
               n == Len(resp.records)
           IN  /\ Cardinality(blocks) = n
               /\ \A i \in 1..n :
                    \E k \in blocks :
                        /\ Cardinality({j \in blocks : j < k}) = i - 1
                        /\ document[k].text
                              = "Record " \o ToString(i) \o ": " \o resp.records[i].location
               /\ Cardinality(breaks) = IF n = 0 THEN 0 ELSE n - 1
               /\ \A b \in breaks :
                    /\ \E k \in blocks : k < b
                    /\ \E k \in blocks : b < k

\* The column of a CSV document that the header row names.
Column(document, name) == CHOOSE k \in DOMAIN document[1] : document[1][k] = name

\* The record has no temperature_data.current.main: temperature_data is
\* absent (NULL or empty), or 'current' is absent, or 'main' is absent.
NoCurrentMain(record) ==
    \/ record.temperature_data = PyNone
    \/ record.temperature_data = EmptyDict
    \/ "current" \notin DOMAIN record.temperature_data
    \/ "main" \notin DOMAIN record.temperature_data.current

\* C16: in the CSV export, the row of a record whose temperature_data has no
\* current.main holds exactly the string N/A, without a unit suffix, in both
\* the Current Temp and the Current Humidity column.
C16_NoMainIsNA ==
    ServiceExported("csv") =>
        LET document == resp.file.body
        IN  \A i \in DOMAIN resp.records :
                NoCurrentMain(resp.records[i]) =>
                    /\ document[i + 1][Column(document, "Current Temp")] = "N/A"
                    /\ document[i + 1][Column(document, "Current Humidity")] = "N/A"

\* A table with a record without weather and one with current.main was
\* exported to CSV.
C16_Witness ==
    /\ ServiceExported("csv")
    /\ \E i \in DOMAIN resp.records : resp.records[i].temperature_data = PyNone
    /\ \E i \in DOMAIN resp.records : ~NoCurrentMain(resp.records[i])

\* C17: in the CSV export every missing nested weather field renders as
\* exactly N/A: when current.main is present but lacks 'temp' (or 'humidity')
\* the Current Temp (or Current Humidity) cell is exactly N/A, and a value
\* that is present is written with its unit suffix.
C17_MissingFieldIsNA ==
    ServiceExported("csv") =>
        LET document == resp.file.body
        IN  \A i \in DOMAIN resp.records :
                ~NoCurrentMain(resp.records[i]) =>
                    LET main == resp.records[i].temperature_data.current.main
                    IN  /\ document[i + 1][Column(document, "Current Temp")]
                             = IF "temp" \in DOMAIN main
                               THEN ToString(main.temp) \o "°C"
                               ELSE "N/A"
                        /\ document[i + 1][Column(document, "Current Humidity")]
                             = IF "humidity" \in DOMAIN main
                               THEN ToString(main.humidity) \o "%"
                               ELSE "N/A"

\* json.loads of the value of a key that can hold null
loads_column(v) == IF v = JsonNull THEN PyNone ELSE v

\* json.loads of a document of record objects: numbers and strings are read
\* as they were written, null can stand only under temperature_data.
json_loads(document) ==
    [i \in 1..Len(document) |->
        [document[i] EXCEPT !.temperature_data = loads_column(@)]]

C19_OneEntryPerRecord ==
    /\ ServiceExported("csv") =>
          LET document == resp.file.body
          IN  /\ Len(document) = Len(resp.records) + 1
              /\ document[1][1] = "ID"
              /\ \A i \in DOMAIN resp.records :
                    document[i + 1][Column(document, "ID")] = ToString(resp.records[i].id)
    /\ (impl = "refactored" /\ ExportOf("xml")) =>
          /\ resp.status = 200
          /\ LET root == resp.file.body
             IN  /\ Len(root.children) = Len(resp.records)
                 /\ root.attrib.total_records = ToString(Len(resp.records))
                 /\ \A i \in DOMAIN resp.records :
                       /\ root.children[i].tag = "record"
                       /\ root.children[i].children[1].text
                             = [str |-> ToString(resp.records[i].id)]

BothCommitted ==
    /\ \A p \in Requests : session[p].pc = "done" /\ session[p].response.committed
    /\ \A p, q \in Requests : session[p].record_id = session[q].record_id

\* The request that committed last, and the one that committed before it.
LastCommitter == CHOOSE p \in Requests : \A q \in Requests : session[q].at <= session[p].at

FirstCommitter == CHOOSE p \in Requests : p # LastCommitter

\* The row after an update request that meets the given body and upstream
\* outcomes has run alone on row at clock: the row object it commits, or row
\* itself when the request ends before its commit.
UpdatedAlone(row, request, clock) ==
    LET o == IF impl = "app"
             THEN update_outcome_app(row, request.data, request.geo, request.up, clock)
             ELSE update_outcome_refactored(row, request.data, request.geo, request.up, clock)
    IN  IF o.status = 200 THEN o.record ELSE row

\* The row after the two requests have run one after the other, x first, at
\* the times of the two commits.
SerialOrder(x, y) ==
    UpdatedAlone(
        UpdatedAlone(session[FirstCommitter].loaded, session[x].response.request,
                     session[FirstCommitter].at),
        session[y].response.request, session[LastCommitter].at)

\* C21: when two update requests for the same record id have both committed,
\* the persisted record equals, field for field, the record of one of the
\* two serial orders of the two requests.
C21_LastCommitWins ==
    BothCommitted =>
        store[session[LastCommitter].record_id]
            \in {SerialOrder(FirstCommitter, LastCommitter),
                 SerialOrder(LastCommitter, FirstCommitter)}

\* latitude and longitude are the geocoder's for the stored location, and the
\* date range inside temperature_data is the stored one.
Consistent(record) ==
    /\ record.location \in KnownLocations
    /\ record.latitude = Places[record.location].latitude
    /\ record.longitude = Places[record.location].longitude
    /\ "date_range" \in DOMAIN record.temperature_data
    /\ record.temperature_data.date_range
          = [start |-> isoformat(record.start_date), end |-> isoformat(record.end_date)]

\* C30: after any interleaving of update requests every persisted record is
\* internally consistent.  Stated for the records of src/app.py whose weather
\* fetch returned data (WeatherService.fetch_weather_data records no date
\* range, and a fetch that raised with an empty message stores no data).
C30_RecordsConsistent ==
    \A i \in DOMAIN store :
        (impl = "app" /\ store[i].temperature_data # PyNone) => Consistent(store[i])

(***************************************************************************)
(* Properties of the error reporting and of the request steps              *)
(* (specifications Spec, SpecStored, SpecFetch and SpecCleanup).           *)
(***************************************************************************)
ClientClass == 400..499

ServerClass == 500..599

\* The request was refused for its input: a missing body or field, a date
\* range that is malformed or out of policy, a location the geocoder does not
\* know.
ValidationFailure(r) ==
    /\ r.op \in {"create", "update"}
    /\ \/ r.failed \in {"input", "date"}
       \/ r.failed = "location" /\ r.error.text = "Location not found"

\* C22: every validation failure on a create or update request is reported
\* as a client-class failure with a reason, never as a server-class failure.
C22_ValidationIsClientError ==
    ValidationFailure(resp) =>
        /\ resp.status \in ClientClass
        /\ resp.error # PyNone

\* The weather API failed during today's weather for a location that the
\* geocoder resolved: the current-conditions request raised or returned a
\* non-success status.
TodayUpstreamFailed ==
    /\ tcall.fn = "get_todays_weather_3hour"
    /\ ~Raises(tcall.geo) /\ tcall.geo.found # PyNone
    /\ Raises(tcall.up.cur) \/ tcall.up.cur.status # HTTP_OK

\* The video API failed during a video search of src/app_refactored.py.
VideoUpstreamFailed ==
    /\ fcall.fn = "get_youtube_videos"
    /\ impl = "refactored"
    /\ fcall.key # PyNone
    /\ Raises(fcall.up) \/ fcall.up.status # HTTP_OK

CarriesStatusOrCause(error) == {"status", "cause"} \cap DOMAIN error # {}

\* C23: every upstream failure is reported to the caller as a server-class
\* failure carrying the upstream status or cause, never as a client-class
\* failure and never as success.
C23_UpstreamFailureIsServerError ==
    /\ TodayUpstreamFailed =>
          /\ tcall.response.status \in ServerClass
          /\ CarriesStatusOrCause(tcall.response.error)
    /\ VideoUpstreamFailed =>
          /\ fcall.response.status \in ServerClass
          /\ CarriesStatusOrCause(fcall.response.error)

\* C24: a read, update or delete of an identifier that is not in the store
\* is answered "not found" with the status of that outcome, which no
\* validation error and no server error carries; it has made no upstream call
\* and no other step, and the store is as it was.
C24_NotFoundIsDistinct ==
    [][(now' = now + 1 /\ resp'.op \in {"read", "update", "delete"}) =>
          /\ resp'.id \notin DOMAIN store =>
                /\ resp'.failed = "not_found"
                /\ resp'.status = 404
                /\ resp'.steps = << >>
                /\ store' = store
          /\ resp'.id \in DOMAIN store => resp'.status # 404]_vars

\* The identifiers handed out earlier whose record is gone.
Deleted == (1..(next_id - 1)) \ DOMAIN store

\* C25: a successful delete removes exactly the record of its id and changes
\* no other record; from then on every read, update or delete of that id
\* reports not found, and no later operation makes the record reappear.
C25_DeleteIsFinal ==
    [][/\ (Handled("delete") /\ resp'.committed) =>
             /\ resp'.id \in DOMAIN store
             /\ DOMAIN store' = DOMAIN store \ {resp'.id}
             /\ \A i \in DOMAIN store' : store'[i] = store[i]
       /\ \A i \in Deleted :
             /\ i \notin DOMAIN store'
             /\ (now' = now + 1 /\ resp'.op \in {"read", "update", "delete"}
                    /\ resp'.id = i) => resp'.failed = "not_found"]_vars

\* The body supplies a non-empty subset of the three fields, each with a
\* valid value: a location the geocoder knows, today as a date.
ValidSubset(body) ==
    /\ DOMAIN body # {}
    /\ DOMAIN body \subseteq {"location", "start_date", "end_date"}
    /\ "location" \in DOMAIN body => body.location \in KnownLocations
    /\ "start_date" \in DOMAIN body => body.start_date = isoformat(Today)
    /\ "end_date" \in DOMAIN body => body.end_date = isoformat(Today)

\* C26: an update request for a stored record that supplies a non-empty
\* subset of {location, start_date, end_date} with valid values is accepted:
\* the route does not refuse it for its body.
C26_PartialUpdateAccepted ==
    (resp.op = "update" /\ resp.id \in DOMAIN store /\ resp.failed = "input"
        /\ "body" \in DOMAIN resp) => ~ValidSubset(resp.body)

\* C27: cleanup_old_records(days_old) removes exactly the records whose
\* created_at is earlier than now minus days_old days, leaves every other
\* record unchanged and returns the number of records removed; when the
\* delete fails it returns 0 and the store is unchanged.
C27_CleanupRemovesOld ==
    [][(now' = now + 1 /\ resp'.op = "cleanup") =>
          LET old == {i \in DOMAIN store : store[i].created_at < now - resp'.days_old} IN
          IF resp'.committed
          THEN /\ DOMAIN store' = DOMAIN store \ old
               /\ \A i \in DOMAIN store' : store'[i] = store[i]
               /\ resp'.deleted_count = Cardinality(old)
          ELSE /\ store' = store
               /\ resp'.deleted_count = 0]_vars

\* A cleanup has removed a record and kept one created exactly at the cutoff.
C27_Witness ==
    /\ resp.op = "cleanup"
    /\ resp.committed
    /\ resp.deleted_count >= 1
    /\ \E i \in DOMAIN store : store[i].created_at = (now - 1) - resp.days_old

\* The steps of the request before its i-th.
Before(steps, i) == SubSeq(steps, 1, i - 1)

Validations == {"validate_location", "validate_date_range"}

Fetches == {"get_weather_data", "fetch_weather_data"}

Succeeded(steps, names) == \E j \in DOMAIN steps : steps[j].step \in names /\ steps[j].ok

\* C28: within every create or update request the weather upstream is called
\* only after the validations of the request, all of which have succeeded,
\* and the store is written only after the weather fetch has succeeded.
C28_StepsInOrder ==
    resp.op \in {"create", "update"} =>
        \A i \in DOMAIN resp.steps :
            /\ resp.steps[i].step \in Fetches =>
                  /\ \A j \in 1..(i - 1) :
                        resp.steps[j].step \in Validations /\ resp.steps[j].ok
                  /\ \A j \in (i + 1)..Len(resp.steps) :
                        resp.steps[j].step \notin Validations
            /\ (resp.steps[i].step = "commit" /\ resp.steps[i].ok) =>
                  Succeeded(Before(resp.steps, i), Fetches)

\* C29: every persisted record has a non-null temperature_data containing
\* both 'current' and 'forecast'.
C29_TemperatureDataComplete ==
    \A i \in DOMAIN store :
        /\ store[i].temperature_data # PyNone
        /\ {"current", "forecast"} \subseteq DOMAIN store[i].temperature_data

====
